---- MODULE Spec2Model ----
(***************************************************************************)
(* Model of the capture perception pipeline of flot_inventory:             *)
(*   app/services/video_processor.py  (VideoProcessor)                     *)
(*   app/services/local_vision.py     (LocalVisionService, _compute_iou)   *)
(*   app/services/transcription.py    (TranscriptionService)               *)
(*                                                                         *)
(* Text is a sequence of one-character strings.  Confidences and           *)
(* timestamps are integers in hundredths; ratios that the code compares    *)
(* as floats are compared here by exact cross-multiplication.              *)
(***************************************************************************)
EXTENDS Integers, Sequences, FiniteSets, TLC

VARIABLES
    \* ---- CaptureViewModel.process_scan_complete ----
    scan_timestamps,\* timestamps: capture time of each scanned frame, in order
    scan_items,     \* items_json: the accumulated items, [name, frame_path]
    scan_transcript,\* [present, segments]; present = FALSE is None
    scan_voice,     \* voice_contexts: frame index -> snippet
    scan_groups,    \* frame_groups, in insertion order: [frame_path, objects]
    scan_results,   \* frame_results
    scan_pc         \* "idle" | "contexts" | "group" | "attach" | "done"

VARIABLES
    \* ---- TranscriptionService.correlate_all_frames ----
    corr_segments,  \* transcript.segments, each with its words [word, start, end]
    corr_frames,    \* frame_timestamps: <<index, timestamp>> pairs
    corr_window,    \* window, in hundredths of a second
    corr_out,       \* the FrameVoiceContext list being built
    corr_pc         \* "idle" | "loop" | "done"

VARIABLES
    \* ---- one call of _compute_iou ----
    iou_a,           \* box_a, <<x1, y1, x2, y2>> on a grid
    iou_b,           \* box_b
    iou_val,         \* the value returned, as [num, den]
    iou_pc           \* "idle", "called", "done"

VARIABLES
    \* ---- routers/capture.py: progress queues of the upload handlers ----
    progress_queues, \* _progress_queues: session id -> queue (its index in queues)
    queues,          \* the asyncio.Queue objects made so far: their pending events
    pushed,          \* history: every event ever put on each queue, in put order
    uploads,         \* per upload request: [pc, session_id, queue, kind, step]
    consumers        \* per stream_progress request: [pc, session_id, queue, out, beats]

VARIABLES
    \* ---- one call of LocalVisionService.analyze_frame ----
    an_img,          \* what cv2.imread gives for image_path
    an_yolo,         \* what the spatial detector does in this call
    an_outcome,      \* what the semantic backend does in this call
    an_vc,           \* voice_context (<<>> for None)
    an_result,       \* [raised, objects]: what the call gave its caller
    an_pc            \* "idle", "called", "returned", "raised"

VARIABLES
    \* ---- VideoProcessor._deduplicate_objects ----
    results,        \* list[FrameAnalysisResult]: one object list per frame
    all_objects,    \* the flattened list
    used,           \* used[j]: object j already claimed by a cluster
    dedup_merged,   \* the output list being built (merged)
    dedup_i,        \* outer loop index i (1-based)
    dedup_pc,       \* "idle" | "flatten" | "scan" | "done"
    dedup_run,      \* 1: run on the frames, 2: run on the first run's output
    dedup_first     \* output of run 1

VARIABLES
    \* ---- LocalVisionService._merge_detections ----
    yolo_dets,      \* spatial detections of the frame
    qwen_objs,      \* semantic objects of the frame (after _normalize_bboxes)
    used_qwen,      \* indices of the semantic objects already consumed
    fuse_merged,    \* the output list being built (merged)
    fuse_src,       \* history: per output entry, the semantic index whose
                    \* fields it took (0: none)
    fuse_k,         \* index of the next spatial detection (1-based)
    fuse_pc,        \* "idle" | "match" | "rest" | "done" | "raised"
    fuse_err        \* what was raised: "" | "name" | "validation" | "confidence"

VARIABLES
    \* ---- VideoProcessor._filter_quality_frames ----
    frames,         \* input list of <<frame_path, timestamp>> pairs
    disk,           \* disk[frame_path]: the image stored at that path
    seen_hashes,    \* hashes of the frames accepted so far, in order
    quality_frames, \* the output list being built
    filter_i,       \* index of the next input frame (1-based)
    filter_pc       \* "idle" | "loop" | "done"

VARIABLES
    \* ---- TranscriptionService.detect_room_mentions ----
    segments,       \* transcript.segments: [text, start]
    mentions,       \* the RoomMention list being built
    seen,           \* the set of (room_name, rounded start) keys
    room_i,         \* index of the next segment (1-based)
    room_pc         \* "idle" | "loop" | "done"

VARIABLES
    \* ---- VideoProcessor.process_video ----
    video,          \* the uploaded file: [fps, native] (native: decoded images)
    pv_pc,          \* position of process_video
    frame_task,     \* "none" | "running" | "done"
    transcript_task,\* "none" | "running" | "called" | "done"
    events,         \* progress events pushed so far: [status, progress]
    frames_with_ts, \* result of _extract_frames
    frame_files,    \* frame_files[path]: the image written at that path
    pv_quality,     \* quality_frames
    transcript,     \* [present, segments]; present = FALSE is None
    voice_contexts, \* frame index -> snippet (only non-blank snippets)
    room_mentions,
    pv_i,           \* index of the next quality frame (1-based)
    all_results,    \* list of FrameAnalysisResult
    last_call,      \* history: what the backends did in the last analyze_frame
    deduplicated,
    mode_switch     \* [present, items]

dedupVars == <<results, all_objects, used, dedup_merged, dedup_i, dedup_pc,
               dedup_run, dedup_first>>

fuseVars == <<yolo_dets, qwen_objs, used_qwen, fuse_merged, fuse_src, fuse_k,
              fuse_pc, fuse_err>>

filterVars == <<frames, disk, seen_hashes, quality_frames, filter_i, filter_pc>>

roomVars == <<segments, mentions, seen, room_i, room_pc>>

routerVars == <<progress_queues, queues, pushed, uploads, consumers>>

iouVars == <<iou_a, iou_b, iou_val, iou_pc>>

corrVars == <<corr_segments, corr_frames, corr_window, corr_out, corr_pc>>

scanVars == <<scan_timestamps, scan_items, scan_transcript, scan_voice, scan_groups, scan_results, scan_pc>>

analyzeVars == <<an_img, an_yolo, an_outcome, an_vc, an_result, an_pc>>

pipeVars == <<video, pv_pc, frame_task, transcript_task, events, frames_with_ts,
              frame_files, pv_quality, transcript, voice_contexts, room_mentions,
              pv_i, all_results, last_call, deduplicated, mode_switch>>

vars == <<dedupVars, fuseVars, filterVars, roomVars, analyzeVars, pipeVars, routerVars, iouVars, corrVars, scanVars>>

notDedup == <<fuseVars, filterVars, roomVars, analyzeVars, pipeVars, routerVars, iouVars, corrVars, scanVars>>
notFuse == <<dedupVars, filterVars, roomVars, analyzeVars, pipeVars, routerVars, iouVars, corrVars, scanVars>>
notFilter == <<dedupVars, fuseVars, roomVars, analyzeVars, pipeVars, routerVars, iouVars, corrVars, scanVars>>
notRoom == <<dedupVars, fuseVars, filterVars, analyzeVars, pipeVars, routerVars, iouVars, corrVars, scanVars>>
notAnalyze == <<dedupVars, fuseVars, filterVars, roomVars, pipeVars, routerVars, iouVars, corrVars, scanVars>>
notRouter == <<dedupVars, fuseVars, filterVars, roomVars, analyzeVars, pipeVars, iouVars, corrVars, scanVars>>
notIou == <<dedupVars, fuseVars, filterVars, roomVars, analyzeVars, pipeVars, routerVars, corrVars, scanVars>>
notCorr == <<dedupVars, fuseVars, filterVars, roomVars, analyzeVars, pipeVars, routerVars, iouVars, scanVars>>
notScan == <<dedupVars, fuseVars, filterVars, roomVars, analyzeVars, pipeVars, routerVars, iouVars, corrVars>>
notPipe == <<dedupVars, fuseVars, filterVars, roomVars, analyzeVars, routerVars, iouVars, corrVars, scanVars>>

-----------------------------------------------------------------------------
(* Bounds                                                                  *)
MaxFrames == 2
MaxObjsPerFrame == 2
MaxYolo == 2
MaxQwen == 2
MaxRawFrames == 3
MaxSegments == 2
MaxNativeFrames == 3
MaxUploads == 2
MaxConsumers == 1
MaxHeartbeats == 1
MaxCoord == 2

-----------------------------------------------------------------------------
(* Text helpers                                                            *)

\* str.lower() on the alphabet the pools use
LowerChar(c) ==
    CASE c = "L" -> "l"
      [] c = "C" -> "c"
      [] c = "K" -> "k"
      [] c = "T" -> "t"
      [] c = "R" -> "r"
      [] OTHER -> c

Lower(s) == [k \in 1..Len(s) |-> LowerChar(s[k])]

Max2(a, b) == IF a >= b THEN a ELSE b
Min2(a, b) == IF a <= b THEN a ELSE b

\* Length of the longest common subsequence of s and t
RECURSIVE LCS(_, _)
LCS(s, t) ==
    IF Len(s) = 0 \/ Len(t) = 0 THEN 0
    ELSE IF s[1] = t[1] THEN 1 + LCS(Tail(s), Tail(t))
    ELSE Max2(LCS(Tail(s), t), LCS(s, Tail(t)))

\* rapidfuzz.fuzz.ratio(s, t) = 100 * 2*LCS / (len(s)+len(t)), 100 for two
\* empty strings.  Kept as the exact fraction RatioNum / RatioDen.
RatioNum(s, t) == IF Len(s) + Len(t) = 0 THEN 100 ELSE 200 * LCS(s, t)
RatioDen(s, t) == IF Len(s) + Len(t) = 0 THEN 1 ELSE Len(s) + Len(t)

\* fuzz.ratio(s, t) > threshold
RatioAbove(s, t, threshold) == RatioNum(s, t) > threshold * RatioDen(s, t)

-----------------------------------------------------------------------------
(* VideoProcessor._deduplicate_objects                                     *)

NameSimHigh == 80
NameSimLow == 60
DescSimMin == 70

\* the merge test of lines 235-240, obj_a the seed, obj_b the candidate
SameObject(obj_a, obj_b) ==
    \/ RatioAbove(Lower(obj_a.name), Lower(obj_b.name), NameSimHigh)
    \/ /\ RatioAbove(Lower(obj_a.name), Lower(obj_b.name), NameSimLow)
       /\ RatioAbove(Lower(obj_a.description), Lower(obj_b.description), DescSimMin)

\* lines 215-218
RECURSIVE Flatten(_)
Flatten(rs) == IF rs = <<>> THEN <<>> ELSE Head(rs) \o Flatten(Tail(rs))

\* (variant: lines 235-240 comparing the candidate with the representative
\* promoted so far instead of the seed)
RECURSIVE ScanClusterAgainstBest(_, _, _, _, _)
ScanClusterAgainstBest(objs, obj_a, j, best, u) ==
    IF j > Len(objs) THEN [best |-> best, used |-> u]
    ELSE IF u[j] THEN ScanClusterAgainstBest(objs, obj_a, j + 1, best, u)
    ELSE IF SameObject(best, objs[j])
         THEN ScanClusterAgainstBest(objs, obj_a, j + 1,
                                     IF objs[j].confidence > best.confidence THEN objs[j] ELSE best,
                                     [u EXCEPT ![j] = TRUE])
         ELSE ScanClusterAgainstBest(objs, obj_a, j + 1, best, u)

\* (variant: line 242 with ">=": on equal confidence the later member wins)
RECURSIVE ScanClusterLatest(_, _, _, _, _)
ScanClusterLatest(objs, obj_a, j, best, u) ==
    IF j > Len(objs) THEN [best |-> best, used |-> u]
    ELSE IF u[j] THEN ScanClusterLatest(objs, obj_a, j + 1, best, u)
    ELSE IF SameObject(obj_a, objs[j])
         THEN ScanClusterLatest(objs, obj_a, j + 1,
                                IF objs[j].confidence >= best.confidence THEN objs[j] ELSE best,
                                [u EXCEPT ![j] = TRUE])
         ELSE ScanClusterLatest(objs, obj_a, j + 1, best, u)

\* inner loop, lines 231-243: scan j..n with seed obj_a; returns the record
\* [best, used] after the loop
RECURSIVE ScanCluster(_, _, _, _, _)
ScanCluster(objs, obj_a, j, best, u) ==
    IF j > Len(objs) THEN [best |-> best, used |-> u]
    ELSE IF u[j] THEN ScanCluster(objs, obj_a, j + 1, best, u)
    ELSE IF SameObject(obj_a, objs[j])
         THEN ScanCluster(objs, obj_a, j + 1,
                          IF objs[j].confidence > best.confidence THEN objs[j] ELSE best,
                          [u EXCEPT ![j] = TRUE])
         ELSE ScanCluster(objs, obj_a, j + 1, best, u)

\* the objects a frame can hold (name, description, confidence in hundredths)
ObjPool ==
    { [name |-> <<"L","a","m","p">>,         description |-> <<"t","a","l","l">>, confidence |-> 50],
      [name |-> <<"l","a","m","p","s">>,     description |-> <<"t","a","l","l">>, confidence |-> 80],
      [name |-> <<"c","l","a","m","p","s">>, description |-> <<"r","e","d">>,     confidence |-> 60],
      [name |-> <<"C","l","a","m","p">>,     description |-> <<"T","a","l","l">>, confidence |-> 50],
      [name |-> <<"c","h","a","i","r">>,     description |-> <<>>,                confidence |-> 70] }

SeqsUpTo(S, n) == UNION { [1..k -> S] : k \in 0..n }

DedupIdle ==
    /\ results = <<>>
    /\ all_objects = <<>>
    /\ used = <<>>
    /\ dedup_merged = <<>>
    /\ dedup_i = 0
    /\ dedup_pc = "idle"
    /\ dedup_run = 0
    /\ dedup_first = <<>>

DedupInit ==
    /\ results \in SeqsUpTo(SeqsUpTo(ObjPool, MaxObjsPerFrame), MaxFrames)
    /\ all_objects = <<>>
    /\ used = <<>>
    /\ dedup_merged = <<>>
    /\ dedup_i = 0
    /\ dedup_pc = "flatten"
    /\ dedup_run = 1
    /\ dedup_first = <<>>

\* lines 215-224: flatten, early return on an empty list, else start the scan
DedupFlatten ==
    /\ dedup_pc = "flatten"
    /\ all_objects' = Flatten(results)
    /\ used' = [k \in 1..Len(Flatten(results)) |-> FALSE]
    /\ dedup_merged' = <<>>
    /\ dedup_i' = 1
    /\ dedup_pc' = IF Flatten(results) = <<>> THEN "done" ELSE "scan"
    /\ UNCHANGED <<results, dedup_run, dedup_first>>
    /\ UNCHANGED notDedup

\* one iteration of the outer loop, lines 226-244
DedupScan ==
    /\ dedup_pc = "scan"
    /\ dedup_i <= Len(all_objects)
    /\ IF used[dedup_i]
       THEN UNCHANGED <<used, dedup_merged>>
       ELSE LET r == ScanCluster(all_objects, all_objects[dedup_i], dedup_i + 1,
                                 all_objects[dedup_i], [used EXCEPT ![dedup_i] = TRUE])
            IN /\ used' = r.used
               /\ dedup_merged' = Append(dedup_merged, r.best)
    /\ dedup_i' = dedup_i + 1
    /\ dedup_pc' = IF dedup_i = Len(all_objects) THEN "done" ELSE "scan"
    /\ UNCHANGED <<results, all_objects, dedup_run, dedup_first>>
    /\ UNCHANGED notDedup

\* the returned list handed back to _deduplicate_objects as one frame's objects
DedupAgain ==
    /\ dedup_pc = "done"
    /\ dedup_run = 1
    /\ results' = <<dedup_merged>>
    /\ dedup_first' = dedup_merged
    /\ dedup_run' = 2
    /\ dedup_pc' = "flatten"
    /\ UNCHANGED <<all_objects, used, dedup_merged, dedup_i>>
    /\ UNCHANGED notDedup

\* _deduplicate_objects as a whole, from index i on
RECURSIVE DedupFrom(_, _, _, _)
DedupFrom(objs, i, u, acc) ==
    IF i > Len(objs) THEN acc
    ELSE IF u[i] THEN DedupFrom(objs, i + 1, u, acc)
    ELSE LET r == ScanCluster(objs, objs[i], i + 1, objs[i], [u EXCEPT ![i] = TRUE])
         IN DedupFrom(objs, i + 1, r.used, Append(acc, r.best))

DeduplicateObjects(rs) ==
    DedupFrom(Flatten(rs), 1, [k \in 1..Len(Flatten(rs)) |-> FALSE], <<>>)

DedupNext == DedupFlatten \/ DedupScan \/ DedupAgain


-----------------------------------------------------------------------------
(* _compute_iou and fuzz.partial_ratio                                     *)

\* Boxes are <<x1, y1, x2, y2>> in tenths of the frame; <<>> is None.
\* _compute_iou as the exact fraction IouNum / IouDen.
BoxInter(box_a, box_b) ==
    Max2(0, Min2(box_a[3], box_b[3]) - Max2(box_a[1], box_b[1]))
  * Max2(0, Min2(box_a[4], box_b[4]) - Max2(box_a[2], box_b[2]))

BoxArea(b) == (b[3] - b[1]) * (b[4] - b[2])

BoxUnion(box_a, box_b) == BoxArea(box_a) + BoxArea(box_b) - BoxInter(box_a, box_b)

IouNum(box_a, box_b) == IF BoxUnion(box_a, box_b) > 0 THEN BoxInter(box_a, box_b) ELSE 0
IouDen(box_a, box_b) == IF BoxUnion(box_a, box_b) > 0 THEN BoxUnion(box_a, box_b) ELSE 1

\* the windows of hay that partial_ratio aligns a needle of length m with:
\* the proper prefixes shorter than m, every window of length m, and the
\* suffixes shorter than m
Windows(m, hay) ==
    { SubSeq(hay, 1, b) : b \in 1..Min2(m - 1, Len(hay)) }
    \cup { SubSeq(hay, a, a + m - 1) : a \in 1..(Len(hay) - m + 1) }
    \cup { SubSeq(hay, a, Len(hay)) : a \in Max2(1, Len(hay) - m + 2)..Len(hay) }

RECURSIVE GCD(_, _)
GCD(a, b) == IF b = 0 THEN a ELSE GCD(b, a % b)

\* a fraction in lowest terms (the value is unchanged)
ReduceBy(f, g) == IF g = 0 THEN f ELSE [num |-> f.num \div g, den |-> f.den \div g]
Reduce(f) == ReduceBy(f, GCD(f.num, f.den))

\* best ratio of needle against the windows of hay, as [num, den]
BestOf(scores) == CHOOSE f \in scores : \A g \in scores : f.num * g.den >= g.num * f.den

BestWindow(needle, hay) ==
    BestOf({ Reduce([num |-> RatioNum(needle, w), den |-> RatioDen(needle, w)]) :
               w \in Windows(Len(needle), hay) })

FracMax(f, g) == IF f.num * g.den >= g.num * f.den THEN f ELSE g

\* rapidfuzz.fuzz.partial_ratio(s1, s2) on the 0..100 scale, as [num, den]
PartialRatio(s1, s2) ==
    IF Len(s1) = 0 /\ Len(s2) = 0 THEN [num |-> 100, den |-> 1]
    ELSE IF Len(s1) = 0 \/ Len(s2) = 0 THEN [num |-> 0, den |-> 1]
    ELSE IF Len(s1) < Len(s2) THEN BestWindow(s1, s2)
    ELSE IF Len(s2) < Len(s1) THEN BestWindow(s2, s1)
    ELSE FracMax(BestWindow(s1, s2), BestWindow(s2, s1))

-----------------------------------------------------------------------------
(* LocalVisionService._merge_detections                                    *)

UpperChar(c) ==
    CASE c = "l" -> "L"
      [] c = "c" -> "C"
      [] c = "k" -> "K"
      [] c = "t" -> "T"
      [] c = "r" -> "R"
      [] c = "b" -> "B"
      [] c = "u" -> "U"
      [] OTHER -> c

IsSeparator(c) == c \in {" ", "_", ",", "."}

\* str.title(): first letter of every word upper, the others lower
Title(s) ==
    [k \in 1..Len(s) |->
        IF k = 1 \/ IsSeparator(s[k - 1]) THEN UpperChar(s[k]) ELSE LowerChar(s[k])]

\* str.replace("_", " ")
Unscore(s) == [k \in 1..Len(s) |-> IF s[k] = "_" THEN " " ELSE s[k]]

DetectedPrefix == <<"D","e","t","e","c","t","e","d"," ">>
UnknownName == <<"U","n","k","n","o","w","n">>

\* qobj.get("name", ""): a semantic object's name is a string, absent, or
\* JSON null (get then returns None)
NameOrEmpty(qobj) == IF qobj.name_kind = "str" THEN qobj.name ELSE <<>>

\* spatial detections (class_name, category, confidence in hundredths, bbox)
YoloPool ==
    { [class_name |-> <<"c","h","a","i","r">>, category |-> "furniture",
       confidence |-> 50, bbox |-> <<1, 1, 4, 4>>],
      [class_name |-> <<"l","a","m","p">>, category |-> "decor",
       confidence |-> 100, bbox |-> <<5, 5, 9, 9>>],
      [class_name |-> <<"b","o","o","k">>, category |-> "books",
       confidence |-> 31, bbox |-> <<1, 1, 4, 4>>],
      [class_name |-> <<"c","h","a","i","r">>, category |-> "furniture",
       confidence |-> 50, bbox |-> <<1, 1, 6, 5>>] }

\* semantic objects after _normalize_bboxes
QwenPool ==
    { [name_kind |-> "str", name |-> <<"R","e","d"," ","c","h","a","i","r">>,
       desc_kind |-> "str", description |-> <<"r","e","d">>,
       category |-> "furniture", is_book |-> FALSE, bbox |-> <<1, 1, 4, 5>>],
      [name_kind |-> "str", name |-> <<"l","a","m","p">>,
       desc_kind |-> "str", description |-> <<"t","a","l","l">>,
       category |-> "decor", is_book |-> FALSE, bbox |-> <<>>],
      [name_kind |-> "str", name |-> <<"L","a","m","p","s">>,
       desc_kind |-> "missing", description |-> <<>>,
       category |-> "decor", is_book |-> FALSE, bbox |-> <<5, 5, 9, 9>>],
      [name_kind |-> "null", name |-> <<>>,
       desc_kind |-> "str", description |-> <<"r","e","d">>,
       category |-> "other", is_book |-> FALSE, bbox |-> <<1, 1, 4, 4>>],
      [name_kind |-> "missing", name |-> <<>>,
       desc_kind |-> "null", description |-> <<>>,
       category |-> "books", is_book |-> TRUE, bbox |-> <<1, 1, 4, 4>>],
      [name_kind |-> "str", name |-> <<>>,
       desc_kind |-> "str", description |-> <<"t","a","l","l">>,
       category |-> "other", is_book |-> FALSE, bbox |-> <<5, 5, 9, 10>>] }

\* lines 397-398: fuzz.partial_ratio(class_name.lower(), qwen_name)
NameSim(class_name, qwen_name) == PartialRatio(Lower(class_name), Lower(qwen_name))

\* lines 391-400: combined = 0.7 * iou + 0.3 * name_sim, as [num, den]
HasBox(qobj) == qobj.bbox # <<>> /\ Len(qobj.bbox) = 4

\* 0.7 * iou + 0.3 * name_sim for iou = [num, den] and name_sim = ps / 100
Weighted(iou, ps) ==
    Reduce([num |-> 700 * iou.num * ps.den + 3 * ps.num * iou.den,
            den |-> 1000 * iou.den * ps.den])

Combined(det, qobj) ==
    Weighted(IF HasBox(qobj)
             THEN [num |-> IouNum(det.bbox, qobj.bbox), den |-> IouDen(det.bbox, qobj.bbox)]
             ELSE [num |-> 0, den |-> 1],
             NameSim(det.class_name, NameOrEmpty(qobj)))

\* combined > 0.3
MatchThresholdNum == 3
MatchThresholdDen == 10
AboveMatchThreshold(f) == f.num * MatchThresholdDen > MatchThresholdNum * f.den

\* (variant: the inner loop without the "if i in used_qwen: continue" of line 388)
CandidatesIgnoringUsed(qobjs, usedq) == { i \in 1..Len(qobjs) : TRUE }

\* line 388: the semantic objects the inner loop looks at
Candidates(qobjs, usedq) == { i \in 1..Len(qobjs) : i \notin usedq }

\* line 397: .lower() on None raises AttributeError
LowerRaises(qobjs, usedq) ==
    \E i \in Candidates(qobjs, usedq) : qobjs[i].name_kind = "null"

\* (variant: the inner loop's test without "and combined > 0.3")
BetterNoThreshold(i, c, best) ==
    IF c.num * best.score.den > best.score.num * c.den
    THEN [idx |-> i, score |-> c]
    ELSE best

\* lines 401-404: "if combined > best_score and combined > 0.3"
Better(i, c, best) ==
    IF c.num * best.score.den > best.score.num * c.den /\ AboveMatchThreshold(c)
    THEN [idx |-> i, score |-> c]
    ELSE best

\* inner loop, lines 383-404, from index i with the best so far;
\* returns [idx, score]; idx = 0 stands for best_idx = -1 / best_match None
RECURSIVE BestMatch(_, _, _, _, _)
BestMatch(det, qobjs, usedq, i, best) ==
    IF i > Len(qobjs) THEN best
    ELSE IF i \notin Candidates(qobjs, usedq) THEN BestMatch(det, qobjs, usedq, i + 1, best)
    ELSE BestMatch(det, qobjs, usedq, i + 1, Better(i, Combined(det, qobjs[i]), best))

NoMatch == [idx |-> 0, score |-> [num |-> 0, den |-> 1]]

\* round(x, 2) in hundredths of the exact value n / d (ties to even)
RoundHundredths(n, d) ==
    LET q == (100 * n) \div d
        r == (100 * n) % d
    IN IF 2 * r > d THEN q + 1
       ELSE IF 2 * r < d THEN q
       ELSE IF q % 2 = 0 THEN q ELSE q + 1

\* (variant: the sum of the two, neither halved nor capped)
FinalConfidenceSum(confidence, score) ==
    confidence + RoundHundredths(score.num, score.den)

\* line 412: min(1.0, (confidence + best_score) / 2), then round(., 2) of
\* line 425; confidence in hundredths, the result in hundredths
FinalConfidence(confidence, score) ==
    LET n == confidence * score.den + 100 * score.num
        d == 200 * score.den
    IN IF n >= d THEN 100 ELSE RoundHundredths(n, d)

\* DetectedObject(...): pydantic validation of the fields the fuser passes
Validates(name_kind, desc_kind) == name_kind # "null" /\ desc_kind # "null"
ConfidenceValidates(c) == 0 <= c /\ c <= 100

\* lines 406-428: the DetectedObject for spatial detection det given the
\* inner loop's result m
FusedObject(det, qobjs, m, vc) ==
    IF m.idx > 0
    THEN LET q == qobjs[m.idx]
         IN [name |-> IF q.name_kind = "str" THEN q.name ELSE Title(det.class_name),
             description |-> IF q.desc_kind = "missing"
                             THEN DetectedPrefix \o det.class_name ELSE q.description,
             category |-> q.category,
             is_book |-> q.is_book,
             confidence |-> FinalConfidence(det.confidence, m.score),
             bounding_box |-> det.bbox,
             voice_context |-> vc,
             needs_closer_look |-> FALSE]
    ELSE [name |-> Title(Unscore(det.class_name)),
          description |-> DetectedPrefix \o det.class_name,
          category |-> det.category,
          is_book |-> (det.class_name = <<"b","o","o","k">>),
          confidence |-> det.confidence,
          bounding_box |-> det.bbox,
          voice_context |-> vc,
          needs_closer_look |-> FALSE]

SemanticOnlyConfidence == 60

\* (variant: the semantic-only object without its bounding box)
SemanticOnlyObjectUnboxed(q, vc) ==
    [name |-> IF q.name_kind = "missing" THEN UnknownName ELSE q.name,
     description |-> IF q.desc_kind = "missing" THEN <<>> ELSE q.description,
     category |-> q.category,
     is_book |-> q.is_book,
     confidence |-> SemanticOnlyConfidence,
     bounding_box |-> <<>>,
     voice_context |-> vc,
     needs_closer_look |-> FALSE]

\* lines 434-444: the DetectedObject for an unconsumed semantic object
SemanticOnlyObject(q, vc) ==
    [name |-> IF q.name_kind = "missing" THEN UnknownName ELSE q.name,
     description |-> IF q.desc_kind = "missing" THEN <<>> ELSE q.description,
     category |-> q.category,
     is_book |-> q.is_book,
     confidence |-> SemanticOnlyConfidence,
     bounding_box |-> q.bbox,
     voice_context |-> vc,
     needs_closer_look |-> FALSE]

\* (variant: the second loop without the "if i in used_qwen: continue" of line 432)
RECURSIVE AppendRestAll(_, _, _, _, _)
AppendRestAll(qobjs, usedq, i, vc, acc) ==
    IF i > Len(qobjs) THEN acc
    ELSE IF ~Validates(qobjs[i].name_kind, qobjs[i].desc_kind)
         THEN [acc EXCEPT !.ok = FALSE]
         ELSE AppendRestAll(qobjs, usedq, i + 1, vc,
                            [objs |-> Append(acc.objs, SemanticOnlyObject(qobjs[i], vc)),
                             src |-> Append(acc.src, i),
                             ok |-> TRUE])

\* second loop, lines 431-444, from index i: [objs, src, ok]
RECURSIVE AppendRest(_, _, _, _, _)
AppendRest(qobjs, usedq, i, vc, acc) ==
    IF i > Len(qobjs) THEN acc
    ELSE IF i \in usedq THEN AppendRest(qobjs, usedq, i + 1, vc, acc)
    ELSE IF ~Validates(qobjs[i].name_kind, qobjs[i].desc_kind)
         THEN [acc EXCEPT !.ok = FALSE]
         ELSE AppendRest(qobjs, usedq, i + 1, vc,
                         [objs |-> Append(acc.objs, SemanticOnlyObject(qobjs[i], vc)),
                          src |-> Append(acc.src, i),
                          ok |-> TRUE])

NoVoice == <<>>

FuseIdle ==
    /\ yolo_dets = <<>>
    /\ qwen_objs = <<>>
    /\ used_qwen = {}
    /\ fuse_merged = <<>>
    /\ fuse_src = <<>>
    /\ fuse_k = 0
    /\ fuse_pc = "idle"
    /\ fuse_err = ""

FuseInit ==
    /\ yolo_dets \in SeqsUpTo(YoloPool, MaxYolo)
    /\ qwen_objs \in SeqsUpTo(QwenPool, MaxQwen)
    /\ used_qwen = {}
    /\ fuse_merged = <<>>
    /\ fuse_src = <<>>
    /\ fuse_k = 1
    /\ fuse_pc = IF yolo_dets = <<>> THEN "rest" ELSE "match"
    /\ fuse_err = ""

\* (variant: without the used_qwen.add(best_idx) of line 407)
UsedAfterForgetting(usedq, m) == usedq

\* one iteration of the loop over the spatial detections, lines 376-428:
\* [err, used, obj, src]; err = "" when the DetectedObject was built
\* line 407: used_qwen.add(best_idx)
UsedAfter(usedq, m) == IF m.idx > 0 THEN usedq \cup {m.idx} ELSE usedq

\* lines 406-428 for the match m the inner loop found
SpatialResult(det, qobjs, usedq, m, vc) ==
    IF m.idx > 0 /\ ~Validates(qobjs[m.idx].name_kind, qobjs[m.idx].desc_kind)
    THEN [err |-> "validation", used |-> UsedAfter(usedq, m), obj |-> <<>>, src |-> m.idx]
    ELSE IF ~ConfidenceValidates(FusedObject(det, qobjs, m, vc).confidence)
    THEN [err |-> "confidence", used |-> UsedAfter(usedq, m), obj |-> <<>>, src |-> m.idx]
    ELSE [err |-> "", used |-> UsedAfter(usedq, m), obj |-> FusedObject(det, qobjs, m, vc),
          src |-> m.idx]

SpatialStep(det, qobjs, usedq, vc) ==
    IF LowerRaises(qobjs, usedq)
    THEN [err |-> "name", used |-> usedq, obj |-> <<>>, src |-> 0]
    ELSE SpatialResult(det, qobjs, usedq, BestMatch(det, qobjs, usedq, 1, NoMatch), vc)

FuseSpatial ==
    /\ fuse_pc = "match"
    /\ fuse_k <= Len(yolo_dets)
    /\ \E r \in {SpatialStep(yolo_dets[fuse_k], qwen_objs, used_qwen, NoVoice)} :
          /\ used_qwen' = r.used
          /\ IF r.err # ""
             THEN /\ fuse_pc' = "raised"
                  /\ fuse_err' = r.err
                  /\ UNCHANGED <<fuse_merged, fuse_src, fuse_k>>
             ELSE /\ fuse_merged' = Append(fuse_merged, r.obj)
                  /\ fuse_src' = Append(fuse_src, r.src)
                  /\ fuse_k' = fuse_k + 1
                  /\ fuse_pc' = IF fuse_k = Len(yolo_dets) THEN "rest" ELSE "match"
                  /\ UNCHANGED fuse_err
    /\ UNCHANGED <<yolo_dets, qwen_objs>>
    /\ UNCHANGED notFuse

\* _merge_detections as a whole, from spatial detection k on:
\* [raised, objects]
RECURSIVE MergeFrom(_, _, _, _, _, _)

\* what the call gives once the second loop is through (r) or has raised
MergeReturn(r) == [raised |-> ~r.ok, objects |-> IF r.ok THEN r.objs ELSE <<>>]

\* after spatial detection k gave r
MergeAfter(dets, qobjs, k, r, acc, vc) ==
    IF r.err # ""
    THEN [raised |-> TRUE, objects |-> <<>>]
    ELSE MergeFrom(dets, qobjs, k + 1, r.used, Append(acc, r.obj), vc)

MergeFrom(dets, qobjs, k, usedq, acc, vc) ==
    IF k > Len(dets)
    THEN MergeReturn(AppendRest(qobjs, usedq, 1, vc,
                                [objs |-> acc, src |-> <<>>, ok |-> TRUE]))
    ELSE MergeAfter(dets, qobjs, k, SpatialStep(dets[k], qobjs, usedq, vc), acc, vc)

MergeDetections(dets, qobjs, vc) == MergeFrom(dets, qobjs, 1, {}, <<>>, vc)

\* the loop over the semantic objects left, lines 431-444, and the return
FuseSemanticOnly ==
    /\ fuse_pc = "rest"
    /\ \E r \in {AppendRest(qwen_objs, used_qwen, 1, NoVoice,
                           [objs |-> fuse_merged, src |-> fuse_src, ok |-> TRUE])} :
          IF r.ok
          THEN /\ fuse_merged' = r.objs
               /\ fuse_src' = r.src
               /\ fuse_pc' = "done"
               /\ UNCHANGED fuse_err
          ELSE /\ fuse_merged' = r.objs
               /\ fuse_src' = r.src
               /\ fuse_pc' = "raised"
               /\ fuse_err' = "validation"
    /\ UNCHANGED <<yolo_dets, qwen_objs, used_qwen, fuse_k>>
    /\ UNCHANGED notFuse

FuseNext == FuseSpatial \/ FuseSemanticOnly

-----------------------------------------------------------------------------
(* VideoProcessor._filter_quality_frames                                   *)

BlurThreshold == 100
DuplicateThreshold == 10
HashBits == 64

\* imagehash: hash1 - hash2 is the number of differing bits; a hash is the
\* set of its one-bits among 0..HashBits-1
HashDistance(h1, h2) == Cardinality((h1 \ h2) \cup (h2 \ h1))

\* (variant: a sliding window of one, only the last accepted hash is compared)
IsDuplicateOfLast(phash, hashes) ==
    hashes # <<>> /\ HashDistance(phash, hashes[Len(hashes)]) < DuplicateThreshold

\* line 202: any(abs(phash - h) < 10 for h in seen_hashes)
IsDuplicate(phash, hashes) ==
    \E k \in 1..Len(hashes) : HashDistance(phash, hashes[k]) < DuplicateThreshold

\* (variant: the timestamp cut to whole seconds)
KeptPairWholeSeconds(frame_path, timestamp) == <<frame_path, (timestamp \div 100) * 100>>

\* line 207: the pair appended for an accepted frame
KeptPair(frame_path, timestamp) == <<frame_path, timestamp>>

\* (variant: line 197 with "<=": a frame exactly at the threshold is dropped)
UnusableAtThreshold(img) == ~img.readable \/ img.laplacian_var <= BlurThreshold

\* lines 191-198: cv2.imread returned None, or the focus measure is below
\* the blur threshold
Unusable(img) == ~img.readable \/ img.laplacian_var < BlurThreshold

\* the images a frame file can hold: readable or not, variance of the
\* Laplacian, perceptual hash
ImagePool ==
    { [readable |-> TRUE,  laplacian_var |-> 150, phash |-> {}],
      [readable |-> TRUE,  laplacian_var |-> 150, phash |-> {0, 1}],
      [readable |-> TRUE,  laplacian_var |-> 100, phash |-> 0..9],
      [readable |-> TRUE,  laplacian_var |-> 150, phash |-> 0..11],
      [readable |-> TRUE,  laplacian_var |-> 99,  phash |-> 20..(HashBits - 1)],
      [readable |-> FALSE, laplacian_var |-> 0,   phash |-> {}] }

\* timestamps (hundredths of a second) of consecutive extracted frames
FrameStep == 67

FilterIdle ==
    /\ frames = <<>>
    /\ disk = <<>>
    /\ seen_hashes = <<>>
    /\ quality_frames = <<>>
    /\ filter_i = 0
    /\ filter_pc = "idle"

\* the input is what _extract_frames returns: distinct paths, increasing
\* timestamps
FilterInit ==
    /\ \E n \in 0..MaxRawFrames :
          /\ frames = [k \in 1..n |-> <<k, (k - 1) * FrameStep>>]
          /\ disk \in [1..n -> ImagePool]
    /\ seen_hashes = <<>>
    /\ quality_frames = <<>>
    /\ filter_i = 1
    /\ filter_pc = IF frames = <<>> THEN "done" ELSE "loop"

\* one iteration of the loop, lines 190-207
FilterFrame ==
    /\ filter_pc = "loop"
    /\ filter_i <= Len(frames)
    /\ LET frame_path == frames[filter_i][1]
           timestamp == frames[filter_i][2]
           img == disk[frame_path]
       IN IF Unusable(img) \/ IsDuplicate(img.phash, seen_hashes)
          THEN UNCHANGED <<seen_hashes, quality_frames>>
          ELSE /\ seen_hashes' = Append(seen_hashes, img.phash)
               /\ quality_frames' = Append(quality_frames, KeptPair(frame_path, timestamp))
    /\ filter_i' = filter_i + 1
    /\ filter_pc' = IF filter_i = Len(frames) THEN "done" ELSE "loop"
    /\ UNCHANGED <<frames, disk>>
    /\ UNCHANGED notFilter

\* _filter_quality_frames as a whole, from input index i on:
\* fs the input pairs, files the images by path
RECURSIVE FilterFrom(_, _, _, _, _)
FilterFrom(fs, files, i, hashes, acc) ==
    IF i > Len(fs) THEN acc
    ELSE LET img == files[fs[i][1]]
         IN IF Unusable(img) \/ IsDuplicate(img.phash, hashes)
            THEN FilterFrom(fs, files, i + 1, hashes, acc)
            ELSE FilterFrom(fs, files, i + 1, Append(hashes, img.phash),
                            Append(acc, KeptPair(fs[i][1], fs[i][2])))

FilterQualityFrames(fs, files) == FilterFrom(fs, files, 1, <<>>, <<>>)

FilterNext == FilterFrame

-----------------------------------------------------------------------------
(* TranscriptionService.detect_room_mentions                               *)

\* A segment text is a sequence of tokens: words (or fixed word groups)
\* separated by single spaces, and the punctuation marks "," and ".", which
\* follow the preceding token without a space.

LongPhrase == "room at the very end of the upstairs corridor"

\* str.lower() / re.IGNORECASE on the tokens the texts use
TokLower(tok) ==
    CASE tok = "This is" -> "this is"
      [] tok = "Entering" -> "entering"
      [] tok = "Kitchen" -> "kitchen"
      [] tok = "The" -> "the"
      [] OTHER -> tok

\* the alternatives of _TRIGGER_PHRASES that the texts use
IsTrigger(tok) == TokLower(tok) \in {"this is", "entering"}

IsThe(tok) == TokLower(tok) = "the"

\* the delimiters (?:\.|,|$) of _TRIGGER_PHRASES
IsPunct(tok) == tok \in {",", "."}

\* the entries of _KNOWN_ROOMS that the texts use
IsKnownRoom(tok) == TokLower(tok) \in {"kitchen", "den", "office"}

LowerTokens(toks) == [k \in 1..Len(toks) |-> TokLower(toks[k])]

\* len() of the tokens joined by single spaces
RECURSIVE CharLen(_)
CharLen(toks) ==
    IF toks = <<>> THEN 0
    ELSE Len(Head(toks)) + (IF Len(toks) > 1 THEN 1 ELSE 0) + CharLen(Tail(toks))

MaxRoomNameLen == 40

\* first index >= i of a punctuation token of text, Len(text) + 1 if none
RECURSIVE NextPunct(_, _)
NextPunct(text, i) ==
    IF i > Len(text) THEN Len(text) + 1
    ELSE IF IsPunct(text[i]) THEN i
    ELSE NextPunct(text, i + 1)

\* _TRIGGER_PHRASES.finditer(text) from token a on: the group(1) values,
\* stripped and lowered, in match order.  After a trigger, " the" is taken
\* when a word follows it; the group runs lazily up to the first "." or ","
\* or the end of the text; the scan resumes after the match.
RECURSIVE TriggerMatches(_, _)
TriggerMatches(text, a) ==
    IF a > Len(text) THEN <<>>
    ELSE IF ~IsTrigger(text[a]) THEN TriggerMatches(text, a + 1)
    ELSE LET withThe == /\ a + 2 <= Len(text)
                        /\ IsThe(text[a + 1])
                        /\ ~IsPunct(text[a + 2])
             groupStart == IF withThe THEN a + 2 ELSE a + 1
         IN IF groupStart > Len(text) \/ IsPunct(text[groupStart])
            THEN TriggerMatches(text, a + 1)
            ELSE LET e == NextPunct(text, groupStart)
                 IN <<LowerTokens(SubSeq(text, groupStart, e - 1))>>
                        \o TriggerMatches(text, e + 1)

\* _KNOWN_ROOMS_PATTERN.finditer(text): the group(1) values, lowered
RECURSIVE KnownMatches(_)
KnownMatches(text) ==
    IF text = <<>> THEN <<>>
    ELSE IF IsKnownRoom(Head(text))
         THEN <<<<TokLower(Head(text))>>>> \o KnownMatches(Tail(text))
         ELSE KnownMatches(Tail(text))

\* round(seg.start, 1): hundredths to tenths (the starts used are no ties)
Round1(start) == (start + 5) \div 10

\* (variant: the key built from the unrounded segment start)
MentionKeyUnrounded(room_name, start) == <<room_name, start>>

\* lines 228 and 241: key = (room_name, round(seg.start, 1))
MentionKey(room_name, start) == <<room_name, Round1(start)>>

HighConfidence == 90
LowConfidence == 70

\* one finditer loop (lines 223-236 with checkLen, lines 239-249 without):
\* acc is [mentions, seen]
RECURSIVE AddMentions(_, _, _, _, _, _)
AddMentions(names, seg, confidence, checkLen, k, acc) ==
    IF k > Len(names) THEN acc
    ELSE LET room_name == names[k]
             key == MentionKey(room_name, seg.start)
         IN IF checkLen /\ CharLen(room_name) > MaxRoomNameLen
            THEN AddMentions(names, seg, confidence, checkLen, k + 1, acc)
            ELSE IF key \in acc.seen
            THEN AddMentions(names, seg, confidence, checkLen, k + 1, acc)
            ELSE AddMentions(names, seg, confidence, checkLen, k + 1,
                     [mentions |-> Append(acc.mentions,
                                      [room_name |-> room_name,
                                       timestamp |-> seg.start,
                                       raw_text |-> seg.text,
                                       confidence |-> confidence]),
                      seen |-> acc.seen \cup {key}])

TextPool ==
    { <<"this is", "the", "kitchen", ",", "pretty small">>,
      <<"Entering", "the", "Kitchen", ".", "This is", "kitchen">>,
      <<"The", "den", "and", "the", "kitchen">>,
      <<"this is", "the">>,
      <<"this is", "my", "office", ".">>,
      <<"this is", "the", "kitchen", "and", "small">>,
      <<"entering", "the", LongPhrase, ",", "this is", ",">> }

\* segment starts in hundredths of a second: 0.00, 0.04, 0.12
StartPool == {0, 4, 12}

RoomIdle ==
    /\ segments = <<>>
    /\ mentions = <<>>
    /\ seen = {}
    /\ room_i = 0
    /\ room_pc = "idle"

RoomInit ==
    /\ segments \in SeqsUpTo([text : TextPool, start : StartPool], MaxSegments)
    /\ mentions = <<>>
    /\ seen = {}
    /\ room_i = 1
    /\ room_pc = IF segments = <<>> THEN "done" ELSE "loop"

\* one iteration of the loop over the segments, lines 219-249
RoomSegment ==
    /\ room_pc = "loop"
    /\ room_i <= Len(segments)
    /\ LET seg == segments[room_i]
           high == AddMentions(TriggerMatches(seg.text, 1), seg, HighConfidence, TRUE, 1,
                               [mentions |-> mentions, seen |-> seen])
           low == AddMentions(KnownMatches(seg.text), seg, LowConfidence, FALSE, 1, high)
       IN /\ mentions' = low.mentions
          /\ seen' = low.seen
    /\ room_i' = room_i + 1
    /\ room_pc' = IF room_i = Len(segments) THEN "done" ELSE "loop"
    /\ UNCHANGED segments
    /\ UNCHANGED notRoom

\* both finditer loops for one segment: acc is [mentions, seen]
SegmentMentions(seg, acc) ==
    AddMentions(KnownMatches(seg.text), seg, LowConfidence, FALSE, 1,
        AddMentions(TriggerMatches(seg.text, 1), seg, HighConfidence, TRUE, 1, acc))

\* detect_room_mentions as a whole, from segment i on
RECURSIVE MentionsFrom(_, _, _)
MentionsFrom(segs, i, acc) ==
    IF i > Len(segs) THEN acc.mentions
    ELSE MentionsFrom(segs, i + 1, SegmentMentions(segs[i], acc))

DetectRoomMentions(segs) == MentionsFrom(segs, 1, [mentions |-> <<>>, seen |-> {}])

RoomNext == RoomSegment

-----------------------------------------------------------------------------
(* LocalVisionService._parse_qwen_response, _normalize_bboxes,             *)
(* _run_qwen_ollama, analyze_frame                                         *)

\* A response text is described by its shape:
\*   fence   "none" | "fenced" (```json, line break, body, ```) |
\*           "no_newline" (the fence and the body on one line)
\*   body    "array" | "object" | "prose_array" (an array inside prose) |
\*           "truncated" (an array cut off after an inner "]") |
\*           "not_json" | "scalar" (a JSON string or number)
\*   literals "json" | "python" (": True" / ": None" after a space) |
\*           "python_tight" (":True", no space)
\*   elems   the elements of the array (the object itself for "object")
\* An element is [kind |-> "obj" | "str" | "num", ...] with, for an object,
\* the fields of a semantic object and bbox_2d in pixels (<<>>: absent).

\* lines 326-329: strip, and the fence removed; raises IndexError when the
\* text starts with a fence and holds no line break
FenceRaises(resp) == resp.fence = "no_newline"

\* json.loads(attempt) succeeds on the whole text
LoadsWhole(resp, attempt) ==
    /\ resp.body \in {"array", "object", "scalar"}
    /\ \/ resp.literals = "json"
       \/ resp.literals = "python" /\ attempt = "fixed"

\* json.loads on the text between the first "[" and the last "]"
LoadsBracketed(resp, attempt) ==
    /\ resp.body \in {"array", "prose_array"}
    /\ \/ resp.literals = "json"
       \/ resp.literals = "python" /\ attempt = "fixed"

\* lines 331-357, after the fence is removed: the list returned
ParseQwenResponse(resp) ==
    IF LoadsWhole(resp, "fixed") /\ resp.body \in {"array", "object"} THEN resp.elems
    ELSE IF LoadsWhole(resp, "text") /\ resp.body \in {"array", "object"} THEN resp.elems
    ELSE IF LoadsBracketed(resp, "fixed") THEN resp.elems
    ELSE IF LoadsBracketed(resp, "text") THEN resp.elems
    ELSE <<>>

\* pixel sizes of the frames
ImgW == 100
ImgH == 100

\* max(0.0, min(1.0, v / dim)) in tenths (the pixel values used divide evenly)
NormCoord(v, dim) == Max2(0, Min2(10, (v * 10) \div dim))

\* lines 230-240 for one object
NormalizeBbox(e, img_w, img_h) ==
    [name_kind |-> e.name_kind, name |-> e.name,
     desc_kind |-> e.desc_kind, description |-> e.description,
     category |-> e.category, is_book |-> e.is_book,
     bbox |-> IF e.bbox_2d # <<>> /\ Len(e.bbox_2d) = 4 /\ img_w > 0 /\ img_h > 0
              THEN <<NormCoord(e.bbox_2d[1], img_w), NormCoord(e.bbox_2d[2], img_h),
                     NormCoord(e.bbox_2d[3], img_w), NormCoord(e.bbox_2d[4], img_h)>>
              ELSE <<>>]

\* line 231: obj.get on an element that is not a dict raises AttributeError
NormalizeRaises(elems) == \E k \in 1..Len(elems) : elems[k].kind # "obj"

NormalizeBboxes(elems, img_w, img_h) ==
    [k \in 1..Len(elems) |-> NormalizeBbox(elems[k], img_w, img_h)]

\* _run_qwen_ollama, lines 257-270: the request fails or times out, or the
\* parse or the normalisation raises: logged, []
NormalizeOrEmpty(objects, img_w, img_h) ==
    IF NormalizeRaises(objects) THEN <<>> ELSE NormalizeBboxes(objects, img_w, img_h)

RunQwen(outcome, img_w, img_h) ==
    IF outcome.kind = "http_error" THEN <<>>
    ELSE IF FenceRaises(outcome.resp) THEN <<>>
    ELSE NormalizeOrEmpty(ParseQwenResponse(outcome.resp), img_w, img_h)

\* analyze_frame, lines 112-130: [raised, objects]
\*   yolo is [kind |-> "raise"] or [kind |-> "ok", dets |-> ...]
AnalyzeFrame(img, yolo, outcome, vc) ==
    IF ~img.readable THEN [raised |-> FALSE, objects |-> <<>>]
    ELSE IF yolo.kind = "raise" THEN [raised |-> TRUE, objects |-> <<>>]
    ELSE MergeDetections(yolo.dets, RunQwen(outcome, ImgW, ImgH), vc)

\* elements of a response
ElemChair ==
    [kind |-> "obj", name_kind |-> "str", name |-> <<"R","e","d"," ","c","h","a","i","r">>,
     desc_kind |-> "str", description |-> <<"r","e","d">>,
     category |-> "furniture", is_book |-> FALSE, bbox_2d |-> <<10, 10, 40, 50>>]
ElemLamp ==
    [kind |-> "obj", name_kind |-> "str", name |-> <<"l","a","m","p">>,
     desc_kind |-> "str", description |-> <<"t","a","l","l">>,
     category |-> "decor", is_book |-> FALSE, bbox_2d |-> <<>>]
ElemNoName ==
    [kind |-> "obj", name_kind |-> "missing", name |-> <<>>,
     desc_kind |-> "missing", description |-> <<>>,
     category |-> "other", is_book |-> FALSE, bbox_2d |-> <<50, 50, 90, 120>>]
ElemNullName ==
    [kind |-> "obj", name_kind |-> "null", name |-> <<>>,
     desc_kind |-> "str", description |-> <<"r","e","d">>,
     category |-> "other", is_book |-> FALSE, bbox_2d |-> <<10, 10, 40, 40>>]
ElemString ==
    [kind |-> "str", name_kind |-> "missing", name |-> <<>>,
     desc_kind |-> "missing", description |-> <<>>,
     category |-> "other", is_book |-> FALSE, bbox_2d |-> <<>>]

Response(fence, body, literals, elems) ==
    [fence |-> fence, body |-> body, literals |-> literals, elems |-> elems]

\* the response texts of the semantic backend
ResponsePool ==
    { Response("none", "array", "json", <<ElemChair>>),
      Response("fenced", "array", "json", <<ElemLamp, ElemChair>>),
      Response("no_newline", "array", "json", <<ElemChair>>),
      Response("none", "object", "json", <<ElemChair>>),
      Response("none", "array", "python", <<ElemChair>>),
      Response("none", "array", "python_tight", <<ElemChair>>),
      Response("none", "prose_array", "json", <<ElemLamp>>),
      Response("none", "truncated", "json", <<ElemChair>>),
      Response("none", "not_json", "json", <<>>),
      Response("none", "scalar", "json", <<>>),
      Response("none", "array", "json", <<ElemChair, ElemString>>),
      Response("none", "array", "json", <<ElemNoName>>),
      Response("none", "array", "json", <<ElemNullName>>) }

NoResponse == Response("none", "not_json", "json", <<>>)

\* what the semantic backend does for one frame
QwenOutcomes ==
    { [kind |-> "http_error", resp |-> NoResponse] }
    \cup { [kind |-> "ok", resp |-> r] : r \in ResponsePool }

DetChair ==
    [class_name |-> <<"c","h","a","i","r">>, category |-> "furniture",
     confidence |-> 50, bbox |-> <<1, 1, 4, 4>>]

\* what the spatial detector does for one frame
YoloOutcomes ==
    { [kind |-> "raise", dets |-> <<>>],
      [kind |-> "ok", dets |-> <<>>],
      [kind |-> "ok", dets |-> <<DetChair>>] }

\* the responses and detector outcomes met inside a whole video run
PipeQwenOutcomes ==
    { [kind |-> "http_error", resp |-> NoResponse],
      [kind |-> "ok", resp |-> Response("none", "array", "json", <<ElemLamp>>)],
      [kind |-> "ok", resp |-> Response("none", "array", "json", <<ElemNullName>>)] }

\* voice snippets handed to analyze_frame: None, or some words
VoicePool == { <<>>, <<"this">> }

ReadableImage == [readable |-> TRUE, laplacian_var |-> 150, phash |-> {}]
UnreadableImage == [readable |-> FALSE, laplacian_var |-> 0, phash |-> {}]

NoResult == [raised |-> FALSE, objects |-> <<>>]

AnalyzeIdle ==
    /\ an_img = UnreadableImage
    /\ an_yolo = [kind |-> "ok", dets |-> <<>>]
    /\ an_outcome = [kind |-> "http_error", resp |-> NoResponse]
    /\ an_vc = <<>>
    /\ an_result = NoResult
    /\ an_pc = "idle"

AnalyzeInit ==
    /\ an_img \in {ReadableImage, UnreadableImage}
    /\ an_yolo \in YoloOutcomes
    /\ an_outcome \in QwenOutcomes
    /\ an_vc \in VoicePool
    /\ an_result = NoResult
    /\ an_pc = "called"

\* analyze_frame, lines 112-130, as one call
AnalyzeCall ==
    /\ an_pc = "called"
    /\ an_result' = AnalyzeFrame(an_img, an_yolo, an_outcome, an_vc)
    /\ an_pc' = IF an_result'.raised THEN "raised" ELSE "returned"
    /\ UNCHANGED <<an_img, an_yolo, an_outcome, an_vc>>
    /\ UNCHANGED notAnalyze

AnalyzeNext == AnalyzeCall

-----------------------------------------------------------------------------
(* VideoProcessor.process_video, _safe_transcribe, _extract_frames         *)

\* progress values are kept in units of 1 / ProgressUnit
ProgressUnit == 12000

\* settings.video_fps_extract = 1.5 = 3 / 2
ExtractRateNum == 3
ExtractRateDen == 2
DefaultFps == 30

\* lines 158-160: fps = cap.get(CAP_PROP_FPS) or 30.0;
\* frame_interval = max(1, int(fps / settings.video_fps_extract))
EffectiveFps(fps) == IF fps = 0 THEN DefaultFps ELSE fps
FrameInterval(fps) ==
    Max2(1, (EffectiveFps(fps) * ExtractRateDen) \div ExtractRateNum)

\* lines 166-176: native frame indices (0-based) that are kept
KeptIndices(v) ==
    { idx \in 0..(Len(v.native) - 1) : idx % FrameInterval(v.fps) = 0 }

\* the idx-th smallest element (1-based) of a set of numbers
RECURSIVE NthSmallest(_, _)
NthSmallest(S, n) ==
    LET m == CHOOSE x \in S : \A y \in S : x <= y
    IN IF n = 1 THEN m ELSE NthSmallest(S \ {m}, n - 1)

\* _extract_frames: the <<path, timestamp>> pairs; path k is frame_{k-1:04d}.jpg,
\* timestamp = frame_idx / fps in hundredths (the rates used divide evenly)
ExtractFrames(v) ==
    [k \in 1..Cardinality(KeptIndices(v)) |->
        <<k, (NthSmallest(KeptIndices(v), k) * 100) \div EffectiveFps(v.fps)>>]

\* cv2.imwrite: the image stored at path k
ExtractedFiles(v) ==
    [k \in 1..Cardinality(KeptIndices(v)) |-> v.native[NthSmallest(KeptIndices(v), k) + 1]]

\* correlate_to_frame, lines 183-193: window = 3.0 s
CorrelateWindow == 300

RECURSIVE AllWords(_)
AllWords(segs) == IF segs = <<>> THEN <<>> ELSE Head(segs).words \o AllWords(Tail(segs))

\* (variant: line 190 with strict comparisons, the window bounds exclusive)
RECURSIVE MatchedWordsStrict(_, _, _)
MatchedWordsStrict(words, t_start, t_end) ==
    IF words = <<>> THEN <<>>
    ELSE IF Head(words).end > t_start /\ Head(words).start < t_end
         THEN <<Head(words).word>> \o MatchedWordsStrict(Tail(words), t_start, t_end)
         ELSE MatchedWordsStrict(Tail(words), t_start, t_end)

RECURSIVE MatchedWords(_, _, _)
MatchedWords(words, t_start, t_end) ==
    IF words = <<>> THEN <<>>
    ELSE IF Head(words).end >= t_start /\ Head(words).start <= t_end
         THEN <<Head(words).word>> \o MatchedWords(Tail(words), t_start, t_end)
         ELSE MatchedWords(Tail(words), t_start, t_end)

\* the snippet of a frame: the matched words, joined in transcript order
CorrelateToFrame(segs, frame_timestamp, window) ==
    MatchedWords(AllWords(segs), frame_timestamp - window \div 2,
                 frame_timestamp + window \div 2)

\* lines 65-72: voice_contexts, only for frames whose snippet is not blank
VoiceContexts(tr, quality) ==
    IF ~tr.present THEN <<>>
    ELSE [k \in 1..Len(quality) |-> CorrelateToFrame(tr.segments, quality[k][2], CorrelateWindow)]

\* line 71: "if snippet.strip()"
NonBlank(vcs) == [k \in { j \in DOMAIN vcs : vcs[j] # <<>> } |-> vcs[k]]

\* voice_contexts.get(i): <<>> for None
VoiceContextOf(vcs, k) == IF k \in DOMAIN vcs THEN vcs[k] ELSE <<>>

NoTranscript == [present |-> FALSE, segments |-> <<>>]

\* what faster-whisper returns for the narrated video
TheTranscript ==
    [present |-> TRUE,
     segments |-> << [text |-> <<"this is", "the", "kitchen", ",", "pretty small">>,
                      start |-> 200, end |-> 330,
                      words |-> << [word |-> "this", start |-> 200, end |-> 230],
                                   [word |-> "kitchen", start |-> 300, end |-> 330] >>] >>]

\* extract_and_transcribe: no audio track (None), an exception, or a result
TranscribeOutcomes == {"no_audio", "raise", "ok"}

\* the frames a video decodes to
PipeImages ==
    { [readable |-> TRUE, laplacian_var |-> 150, phash |-> {}],
      [readable |-> TRUE, laplacian_var |-> 150, phash |-> 0..11],
      [readable |-> TRUE, laplacian_var |-> 99,  phash |-> 20..(HashBits - 1)] }

\* CAP_PROP_FPS: 0 when the container does not tell
FpsPool == {0, 2, 4}

NoCall ==
    [frame |-> 0, yolo |-> [kind |-> "ok", dets |-> <<>>],
     qwen |-> [kind |-> "http_error", resp |-> NoResponse], vc |-> <<>>]
NoModeSwitch == [present |-> FALSE, items |-> <<>>]

Event(status, progress) == [status |-> status, progress |-> progress]

PipeIdle ==
    /\ video = [fps |-> 0, native |-> <<>>]
    /\ pv_pc = "idle"
    /\ frame_task = "none"
    /\ transcript_task = "none"
    /\ events = <<>>
    /\ frames_with_ts = <<>>
    /\ frame_files = <<>>
    /\ pv_quality = <<>>
    /\ transcript = NoTranscript
    /\ voice_contexts = <<>>
    /\ room_mentions = <<>>
    /\ pv_i = 0
    /\ all_results = <<>>
    /\ last_call = NoCall
    /\ deduplicated = <<>>
    /\ mode_switch = NoModeSwitch

PipeInit ==
    /\ video \in [fps : FpsPool, native : SeqsUpTo(PipeImages, MaxNativeFrames)]
    /\ pv_pc = "start"
    /\ frame_task = "none"
    /\ transcript_task = "none"
    /\ events = <<>>
    /\ frames_with_ts = <<>>
    /\ frame_files = <<>>
    /\ pv_quality = <<>>
    /\ transcript = NoTranscript
    /\ voice_contexts = <<>>
    /\ room_mentions = <<>>
    /\ pv_i = 0
    /\ all_results = <<>>
    /\ last_call = NoCall
    /\ deduplicated = <<>>
    /\ mode_switch = NoModeSwitch

\* lines 41-46: the first event, and the two tasks are created
PVStart ==
    /\ pv_pc = "start"
    /\ events' = Append(events, Event("extracting_frames", 0))
    /\ frame_task' = "running"
    /\ transcript_task' = "running"
    /\ pv_pc' = "await_frames"
    /\ UNCHANGED <<video, frames_with_ts, frame_files, pv_quality, transcript,
                   voice_contexts, room_mentions, pv_i, all_results, last_call,
                   deduplicated, mode_switch>>
    /\ UNCHANGED notPipe

\* (variant: _extract_frames raising when the capture gives no frame, the
\* exception reaching the await of line 48)
FrameTaskRunRaising ==
    /\ frame_task = "running"
    /\ frames_with_ts' = ExtractFrames(video)
    /\ frame_files' = ExtractedFiles(video)
    /\ frame_task' = "done"
    /\ pv_pc' = IF video.native = <<>> THEN "raised" ELSE pv_pc
    /\ UNCHANGED <<video, transcript_task, events, pv_quality, transcript,
                   voice_contexts, room_mentions, pv_i, all_results, last_call,
                   deduplicated, mode_switch>>
    /\ UNCHANGED notPipe

\* the frame task, _extract_frames, lines 150-181, up to its return; it yields
\* to the event loop every 100 native frames (line 178), so the steps of the
\* transcription task can fall before or after its end
FrameTaskRun ==
    /\ frame_task = "running"
    /\ frames_with_ts' = ExtractFrames(video)
    /\ frame_files' = ExtractedFiles(video)
    /\ frame_task' = "done"
    /\ UNCHANGED <<video, pv_pc, transcript_task, events, pv_quality, transcript,
                   voice_contexts, room_mentions, pv_i, all_results, last_call,
                   deduplicated, mode_switch>>
    /\ UNCHANGED notPipe

\* the transcription task, _safe_transcribe, lines 133-138: the 0.05 event,
\* then extract_and_transcribe is awaited
TranscribeStart ==
    /\ transcript_task = "running"
    /\ events' = Append(events, Event("transcribing", (5 * ProgressUnit) \div 100))
    /\ transcript_task' = "called"
    /\ UNCHANGED <<video, pv_pc, frame_task, frames_with_ts, frame_files, pv_quality,
                   transcript, voice_contexts, room_mentions, pv_i, all_results,
                   last_call, deduplicated, mode_switch>>
    /\ UNCHANGED notPipe

\* (variant: _safe_transcribe without the try / except of lines 133 and 146:
\* an exception of extract_and_transcribe reaches the await of line 62)
TranscribeFinishUncaught ==
    /\ transcript_task = "called"
    /\ \E outcome \in TranscribeOutcomes :
          /\ IF outcome = "ok"
             THEN /\ transcript' = TheTranscript
                  /\ events' = Append(events, Event("transcribing", (12 * ProgressUnit) \div 100))
             ELSE /\ transcript' = NoTranscript
                  /\ UNCHANGED events
          /\ pv_pc' = IF outcome = "raise" THEN "raised" ELSE pv_pc
    /\ transcript_task' = "done"
    /\ UNCHANGED <<video, frame_task, frames_with_ts, frame_files, pv_quality,
                   voice_contexts, room_mentions, pv_i, all_results, last_call,
                   deduplicated, mode_switch>>
    /\ UNCHANGED notPipe

\* _safe_transcribe, lines 138-148: the result (with the 0.12 event), None,
\* or an exception, caught and turned into None
TranscribeFinish ==
    /\ transcript_task = "called"
    /\ \E outcome \in TranscribeOutcomes :
          IF outcome = "ok"
          THEN /\ transcript' = TheTranscript
               /\ events' = Append(events, Event("transcribing", (12 * ProgressUnit) \div 100))
          ELSE /\ transcript' = NoTranscript
               /\ UNCHANGED events
    /\ transcript_task' = "done"
    /\ UNCHANGED <<video, pv_pc, frame_task, frames_with_ts, frame_files, pv_quality,
                   voice_contexts, room_mentions, pv_i, all_results, last_call,
                   deduplicated, mode_switch>>
    /\ UNCHANGED notPipe

\* lines 48-56: the frame task is awaited, then the 0.15 event.  The event
\* loop runs ready callbacks in order, so the first step of the transcription
\* task (created at line 46) has run before process_video is resumed
PVAwaitFrames ==
    /\ pv_pc = "await_frames"
    /\ frame_task = "done"
    /\ transcript_task # "running"
    /\ events' = Append(events, Event("filtering", (15 * ProgressUnit) \div 100))
    /\ pv_pc' = "filter"
    /\ UNCHANGED <<video, frame_task, transcript_task, frames_with_ts, frame_files,
                   pv_quality, transcript, voice_contexts, room_mentions, pv_i,
                   all_results, last_call, deduplicated, mode_switch>>
    /\ UNCHANGED notPipe

\* lines 58-59
PVFilter ==
    /\ pv_pc = "filter"
    /\ pv_quality' = FilterQualityFrames(frames_with_ts, frame_files)
    /\ pv_pc' = "await_transcript"
    /\ UNCHANGED <<video, frame_task, transcript_task, events, frames_with_ts,
                   frame_files, transcript, voice_contexts, room_mentions, pv_i,
                   all_results, last_call, deduplicated, mode_switch>>
    /\ UNCHANGED notPipe

\* (variant: line 62 reads the narration without awaiting transcript_task)
PVAwaitTranscriptNoWait ==
    /\ pv_pc = "await_transcript"
    /\ voice_contexts' = NonBlank(VoiceContexts(transcript, pv_quality))
    /\ room_mentions' = IF transcript.present
                        THEN DetectRoomMentions(transcript.segments) ELSE <<>>
    /\ events' = Append(events, Event("analyzing", (30 * ProgressUnit) \div 100))
    /\ pv_i' = 1
    /\ pv_pc' = IF pv_quality = <<>> THEN "dedup" ELSE "analyze"
    /\ UNCHANGED <<video, frame_task, transcript_task, frames_with_ts, frame_files,
                   pv_quality, transcript, all_results, last_call, deduplicated,
                   mode_switch>>
    /\ UNCHANGED notPipe

\* lines 62-84: the transcription task is awaited, voice contexts and room
\* mentions are built, then the 0.3 event
PVAwaitTranscript ==
    /\ pv_pc = "await_transcript"
    /\ transcript_task = "done"
    /\ voice_contexts' = NonBlank(VoiceContexts(transcript, pv_quality))
    /\ room_mentions' = IF transcript.present
                        THEN DetectRoomMentions(transcript.segments) ELSE <<>>
    /\ events' = Append(events, Event("analyzing", (30 * ProgressUnit) \div 100))
    /\ pv_i' = 1
    /\ pv_pc' = IF pv_quality = <<>> THEN "dedup" ELSE "analyze"
    /\ UNCHANGED <<video, frame_task, transcript_task, frames_with_ts, frame_files,
                   pv_quality, transcript, all_results, last_call, deduplicated,
                   mode_switch>>
    /\ UNCHANGED notPipe

\* one iteration of the frame loop, lines 87-104: analyze_frame is awaited;
\* an exception it raises leaves process_video
PVAnalyze ==
    /\ pv_pc = "analyze"
    /\ pv_i <= Len(pv_quality)
    /\ \E yolo \in YoloOutcomes, outcome \in PipeQwenOutcomes :
       \E vc \in {VoiceContextOf(voice_contexts, pv_i)} :
       \E r \in {AnalyzeFrame(frame_files[pv_quality[pv_i][1]], yolo, outcome, vc)} :
             /\ last_call' = [frame |-> pv_i, yolo |-> yolo, qwen |-> outcome, vc |-> vc]
             /\ IF r.raised
                THEN /\ pv_pc' = "raised"
                     /\ UNCHANGED <<all_results, events, pv_i>>
                ELSE /\ all_results' = Append(all_results,
                                           [frame_index |-> pv_i - 1,
                                            objects |-> r.objects,
                                            frame_timestamp |-> pv_quality[pv_i][2],
                                            voice_context |-> vc])
                     /\ events' = Append(events,
                            Event("analyzing",
                                  (30 * ProgressUnit) \div 100
                                    + (((50 * ProgressUnit) \div 100) * pv_i) \div Len(pv_quality)))
                     /\ pv_i' = pv_i + 1
                     /\ pv_pc' = IF pv_i = Len(pv_quality) THEN "dedup" ELSE "analyze"
    /\ UNCHANGED <<video, frame_task, transcript_task, frames_with_ts, frame_files,
                   pv_quality, transcript, voice_contexts, room_mentions, deduplicated,
                   mode_switch>>
    /\ UNCHANGED notPipe

\* lines 110-117: the objects flagged needs_closer_look, and the prompt for them
RECURSIVE NeedsCloser(_)
NeedsCloser(objs) ==
    IF objs = <<>> THEN <<>>
    ELSE IF Head(objs).needs_closer_look
         THEN <<Head(objs)>> \o NeedsCloser(Tail(objs))
         ELSE NeedsCloser(Tail(objs))

ModeSwitchOf(needs_closer) ==
    IF needs_closer # <<>> THEN [present |-> TRUE, items |-> needs_closer] ELSE NoModeSwitch

\* lines 106-117: the 0.85 event, deduplication, the mode-switch prompt
PVDedup ==
    /\ pv_pc = "dedup"
    /\ events' = Append(events, Event("deduplicating", (85 * ProgressUnit) \div 100))
    /\ deduplicated' = DeduplicateObjects([k \in 1..Len(all_results) |-> all_results[k].objects])
    /\ mode_switch' = ModeSwitchOf(NeedsCloser(deduplicated'))
    /\ pv_pc' = "finish"
    /\ UNCHANGED <<video, frame_task, transcript_task, frames_with_ts, frame_files,
                   pv_quality, transcript, voice_contexts, room_mentions, pv_i,
                   all_results, last_call>>
    /\ UNCHANGED notPipe

\* lines 119-125: the "done" event and the return
PVDone ==
    /\ pv_pc = "finish"
    /\ events' = Append(events, Event("done", ProgressUnit))
    /\ pv_pc' = "returned"
    /\ UNCHANGED <<video, frame_task, transcript_task, frames_with_ts, frame_files,
                   pv_quality, transcript, voice_contexts, room_mentions, pv_i,
                   all_results, last_call, deduplicated, mode_switch>>
    /\ UNCHANGED notPipe

Next ==
    \/ PVStart
    \/ FrameTaskRun
    \/ TranscribeStart
    \/ TranscribeFinish
    \/ PVAwaitFrames
    \/ PVFilter
    \/ PVAwaitTranscript
    \/ PVAnalyze
    \/ PVDedup
    \/ PVDone

-----------------------------------------------------------------------------
(* _compute_iou as a call                                                  *)

\* the boxes <<x1, y1, x2, y2>> with x1 <= x2 and y1 <= y2 on the grid
\* 0..MaxCoord; a box clamped to the frame's edge can have no width or height
GridBoxes ==
    { b \in (0..MaxCoord) \X (0..MaxCoord) \X (0..MaxCoord) \X (0..MaxCoord) :
        b[1] <= b[3] /\ b[2] <= b[4] }

IouIdle ==
    /\ iou_a = <<0, 0, 0, 0>>
    /\ iou_b = <<0, 0, 0, 0>>
    /\ iou_val = [num |-> 0, den |-> 1]
    /\ iou_pc = "idle"

IouInit ==
    /\ iou_a \in GridBoxes
    /\ iou_b \in GridBoxes
    /\ iou_val = [num |-> 0, den |-> 1]
    /\ iou_pc = "called"

\* lines 94-106: "inter / union if union > 0 else 0.0"
IouCall ==
    /\ iou_pc = "called"
    /\ iou_val' = [num |-> IouNum(iou_a, iou_b), den |-> IouDen(iou_a, iou_b)]
    /\ iou_pc' = "done"
    /\ UNCHANGED <<iou_a, iou_b>>
    /\ UNCHANGED notIou

IouNext == IouCall

-----------------------------------------------------------------------------
(* routers/capture.py: upload_video, upload_rapid_capture, stream_progress *)

SessionIds == {1, 2}

\* the statuses a run pushes through progress_callback, in order, for one
\* frame (video, video_processor.py 42-120 and 136) or one snapshot (rapid,
\* capture_vm.py 181-279, no audio)
RunStatuses(kind) ==
    IF kind = "video"
    THEN <<"extracting_frames", "transcribing", "filtering", "analyzing",
           "analyzing", "deduplicating", "done">>
    ELSE <<"saving", "analyzing", "analyzing", "deduplicating", "done">>

\* the number of events pushed when analyze_frame is awaited for the frame
\* (video_processor.py 89, capture_vm.py 242): there the run can raise
RaisePoint(kind) == IF kind = "video" THEN 4 ELSE 2

\* the dict put on the queue, lines 78-83 / 179-184
QueuedEvent(status, n) == [status |-> status, n |-> n]

Heartbeat == [status |-> "heartbeat", n |-> 0]
NoActiveSession == [status |-> "error", n |-> 0]

IdleUpload == [pc |-> "idle", session_id |-> 0, queue |-> 0, kind |-> "video", step |-> 0]
IdleConsumer == [pc |-> "idle", session_id |-> 0, queue |-> 0, out |-> <<>>, beats |-> 0]

RouterIdle ==
    /\ progress_queues = <<>>
    /\ queues = <<>>
    /\ pushed = <<>>
    /\ uploads = <<>>
    /\ consumers = <<>>

RouterInit ==
    /\ progress_queues = <<>>
    /\ queues = <<>>
    /\ pushed = <<>>
    /\ uploads = [r \in 1..MaxUploads |-> IdleUpload]
    /\ consumers = [c \in 1..MaxConsumers |-> IdleConsumer]

\* dict assignment d[k] = v
DictSet(d, k, v) == [x \in (DOMAIN d) \cup {k} |-> IF x = k THEN v ELSE d[x]]

\* d.pop(k, None)
DictPop(d, k) == [x \in (DOMAIN d) \ {k} |-> d[x]]

\* upload_video lines 67-75, upload_rapid_capture lines 144-176: a new queue
\* is registered under the session id
UploadStart(r, sid, kind) ==
    /\ uploads[r].pc = "idle"
    /\ queues' = Append(queues, <<>>)
    /\ pushed' = Append(pushed, <<>>)
    /\ progress_queues' = DictSet(progress_queues, sid, Len(queues) + 1)
    /\ uploads' = [uploads EXCEPT ![r] =
          [pc |-> "running", session_id |-> sid, queue |-> Len(queues) + 1,
           kind |-> kind, step |-> 0]]
    /\ UNCHANGED consumers
    /\ UNCHANGED notRouter

\* progress_callback, lines 77-83 / 178-184: the run puts its next event on
\* the queue the handler made
UploadEmit(r) ==
    /\ uploads[r].pc = "running"
    /\ uploads[r].step < Len(RunStatuses(uploads[r].kind))
    /\ \E ev \in {QueuedEvent(RunStatuses(uploads[r].kind)[uploads[r].step + 1],
                              uploads[r].step + 1)} :
          /\ queues' = [queues EXCEPT ![uploads[r].queue] = Append(@, ev)]
          /\ pushed' = [pushed EXCEPT ![uploads[r].queue] = Append(@, ev)]
    /\ uploads' = [uploads EXCEPT ![r].step = @ + 1]
    /\ UNCHANGED <<progress_queues, consumers>>
    /\ UNCHANGED notRouter

\* lines 85-87 / 186-190: the awaited run raises (analyze_frame raised); the
\* exception leaves the handler
UploadRaise(r) ==
    /\ uploads[r].pc = "running"
    /\ uploads[r].step = RaisePoint(uploads[r].kind)
    /\ uploads' = [uploads EXCEPT ![r].pc = "raised"]
    /\ UNCHANGED <<progress_queues, queues, pushed, consumers>>
    /\ UNCHANGED notRouter

\* lines 85-103 / 186-204: the run returned; _progress_queues.pop(session_id, None)
UploadReturn(r) ==
    /\ uploads[r].pc = "running"
    /\ uploads[r].step = Len(RunStatuses(uploads[r].kind))
    /\ progress_queues' = DictPop(progress_queues, uploads[r].session_id)
    /\ uploads' = [uploads EXCEPT ![r].pc = "returned"]
    /\ UNCHANGED <<queues, pushed, consumers>>
    /\ UNCHANGED notRouter

\* stream_progress lines 212-215: the queue registered now, or the error event
ConsumerAttach(c, sid) ==
    /\ consumers[c].pc = "idle"
    /\ consumers' = [consumers EXCEPT ![c] =
          IF sid \in DOMAIN progress_queues
          THEN [pc |-> "waiting", session_id |-> sid, queue |-> progress_queues[sid],
                out |-> <<>>, beats |-> 0]
          ELSE [pc |-> "closed", session_id |-> sid, queue |-> 0,
                out |-> <<NoActiveSession>>, beats |-> 0]]
    /\ UNCHANGED <<progress_queues, queues, pushed, uploads>>
    /\ UNCHANGED notRouter

\* lines 219-222: queue.get() gives the oldest event; it is yielded, and the
\* loop ends when its status is "done"
ConsumerGet(c) ==
    /\ consumers[c].pc = "waiting"
    /\ queues[consumers[c].queue] # <<>>
    /\ \E data \in {Head(queues[consumers[c].queue])} :
          consumers' = [consumers EXCEPT
              ![c].out = Append(@, data),
              ![c].pc = IF data.status = "done" THEN "closed" ELSE "waiting"]
    /\ queues' = [queues EXCEPT ![consumers[c].queue] = Tail(@)]
    /\ UNCHANGED <<progress_queues, pushed, uploads>>
    /\ UNCHANGED notRouter

\* (variant: the generator ends on asyncio.TimeoutError instead of yielding
\* the heartbeat of line 224 and looping)
ConsumerTimeoutDisconnect(c) ==
    /\ consumers[c].pc = "waiting"
    /\ queues[consumers[c].queue] = <<>>
    /\ consumers[c].beats < MaxHeartbeats
    /\ consumers' = [consumers EXCEPT ![c].pc = "closed", ![c].beats = @ + 1]
    /\ UNCHANGED <<progress_queues, queues, pushed, uploads>>
    /\ UNCHANGED notRouter

\* lines 219 and 223-224: 30 s without an event; the heartbeat is yielded and
\* the loop goes on
ConsumerTimeout(c) ==
    /\ consumers[c].pc = "waiting"
    /\ queues[consumers[c].queue] = <<>>
    /\ consumers[c].beats < MaxHeartbeats
    /\ consumers' = [consumers EXCEPT ![c].out = Append(@, Heartbeat),
                                      ![c].beats = @ + 1]
    /\ UNCHANGED <<progress_queues, queues, pushed, uploads>>
    /\ UNCHANGED notRouter

RouterNext ==
    \/ \E r \in 1..MaxUploads, sid \in SessionIds, kind \in {"video", "rapid"} :
          UploadStart(r, sid, kind)
    \/ \E r \in 1..MaxUploads : UploadEmit(r)
    \/ \E r \in 1..MaxUploads : UploadRaise(r)
    \/ \E r \in 1..MaxUploads : UploadReturn(r)
    \/ \E c \in 1..MaxConsumers, sid \in SessionIds : ConsumerAttach(c, sid)
    \/ \E c \in 1..MaxConsumers : ConsumerGet(c)
    \/ \E c \in 1..MaxConsumers : ConsumerTimeout(c)

-----------------------------------------------------------------------------
(* TranscriptionService.correlate_to_frame / correlate_all_frames          *)

MaxCorrFrames == 2

\* transcript segments with word timings (hundredths of a second): words
\* ending or starting exactly on a window bound, just outside it, inside it,
\* of zero length, and spanning the whole window
WordSegmentPool ==
    { [words |-> << [word |-> "hello", start |-> 0, end |-> 50],
                    [word |-> "this", start |-> 200, end |-> 230] >>],
      [words |-> << [word |-> "kitchen", start |-> 350, end |-> 380] >>],
      [words |-> << [word |-> "small", start |-> 352, end |-> 400] >>],
      [words |-> << >>],
      [words |-> << [word |-> "uh", start |-> 49, end |-> 49],
                    [word |-> "long", start |-> 0, end |-> 500] >>] }

FrameIndexPool == {0, 1, 7}
FrameTimestampPool == {0, 200, 201}
WindowPool == {300, 100}

CorrIdle ==
    /\ corr_segments = <<>>
    /\ corr_frames = <<>>
    /\ corr_window = CorrelateWindow
    /\ corr_out = <<>>
    /\ corr_pc = "idle"

CorrInit ==
    /\ corr_segments \in SeqsUpTo(WordSegmentPool, MaxSegments)
    /\ corr_frames \in SeqsUpTo(FrameIndexPool \X FrameTimestampPool, MaxCorrFrames)
    /\ corr_window \in WindowPool
    /\ corr_out = <<>>
    /\ corr_pc = IF corr_frames = <<>> THEN "done" ELSE "loop"

\* lines 187-191: the matched TranscribedWord objects
RECURSIVE MatchedRecords(_, _, _)
MatchedRecords(words, t_start, t_end) ==
    IF words = <<>> THEN <<>>
    ELSE IF Head(words).end >= t_start /\ Head(words).start <= t_end
         THEN <<Head(words)>> \o MatchedRecords(Tail(words), t_start, t_end)
         ELSE MatchedRecords(Tail(words), t_start, t_end)

\* lines 195-200: the FrameVoiceContext that correlate_to_frame returns
FrameVoiceContext(segs, frame_timestamp, frame_index, window) ==
    [frame_index |-> frame_index,
     frame_timestamp |-> frame_timestamp,
     transcript_snippet |-> CorrelateToFrame(segs, frame_timestamp, window),
     words |-> MatchedRecords(AllWords(segs), frame_timestamp - window \div 2,
                              frame_timestamp + window \div 2)]

\* lines 209-212: one element of the list comprehension
CorrelateFrame ==
    /\ corr_pc = "loop"
    /\ corr_out' = Append(corr_out,
          FrameVoiceContext(corr_segments, corr_frames[Len(corr_out) + 1][2],
                            corr_frames[Len(corr_out) + 1][1], corr_window))
    /\ corr_pc' = IF Len(corr_out) + 1 = Len(corr_frames) THEN "done" ELSE "loop"
    /\ UNCHANGED <<corr_segments, corr_frames, corr_window>>
    /\ UNCHANGED notCorr

CorrNext == CorrelateFrame

-----------------------------------------------------------------------------
(* CaptureViewModel.process_scan_complete                                  *)

MaxScanFrames == 3
MaxItemsPerScanFrame == 2

\* capture times (hundredths of a second) of consecutive scanned frames
ScanStep == 200

\* process_scan_frame, lines 296-299: the k-th scanned frame is stored as
\* frame_{k-1:04d}.jpg; a frame path is written k here
ScanTimestamps(n) == [k \in 1..n |-> (k - 1) * ScanStep]

SpokenWord(k) == CASE k = 1 -> "hall" [] k = 2 -> "kitchen" [] OTHER -> "den"

\* the transcript of a narration that names something while the frames in
\* narrated are captured, one segment of one word each
RECURSIVE NarrationSegments(_, _, _)
NarrationSegments(narrated, k, n) ==
    IF k > n THEN <<>>
    ELSE (IF k \in narrated
          THEN << [text |-> <<SpokenWord(k)>>,
                   start |-> (k - 1) * ScanStep, end |-> (k - 1) * ScanStep + 30,
                   words |-> << [word |-> SpokenWord(k),
                                 start |-> (k - 1) * ScanStep,
                                 end |-> (k - 1) * ScanStep + 30] >>] >>
          ELSE <<>>)
         \o NarrationSegments(narrated, k + 1, n)

\* items_json as the client accumulated it: count[k] items from the k-th
\* scanned frame, frame after frame, none with a voice context yet
RECURSIVE ItemsOf(_, _)
ItemsOf(count, k) ==
    IF k > Len(count) THEN <<>>
    ELSE [j \in 1..count[k] |-> [name |-> <<k, j>>, frame_path |-> k, voice_context |-> <<>>]]
         \o ItemsOf(count, k + 1)

ScanIdle ==
    /\ scan_timestamps = <<>>
    /\ scan_items = <<>>
    /\ scan_transcript = NoTranscript
    /\ scan_voice = <<>>
    /\ scan_groups = <<>>
    /\ scan_results = <<>>
    /\ scan_pc = "idle"

ScanInit ==
    /\ \E n \in 1..MaxScanFrames :
          /\ scan_timestamps = ScanTimestamps(n)
          /\ \E count \in [1..n -> 0..MaxItemsPerScanFrame] : scan_items = ItemsOf(count, 1)
          /\ \/ scan_transcript = NoTranscript
             \/ \E narrated \in SUBSET (1..n) :
                   scan_transcript = [present |-> TRUE,
                                      segments |-> NarrationSegments(narrated, 1, n)]
    /\ scan_voice = <<>>
    /\ scan_groups = <<>>
    /\ scan_results = <<>>
    /\ scan_pc = "contexts"

\* lines 363-370: voice_contexts from the timestamps, by frame index
ScanCorrelate ==
    /\ scan_pc = "contexts"
    /\ scan_voice' =
          NonBlank(VoiceContexts(scan_transcript,
                                 [k \in 1..Len(scan_timestamps) |-> <<k, scan_timestamps[k]>>]))
    /\ scan_pc' = "group"
    /\ UNCHANGED <<scan_timestamps, scan_items, scan_transcript, scan_groups, scan_results>>
    /\ UNCHANGED notScan

\* lines 380-382: frame_groups.setdefault(fp, []).append(obj), the dict
\* keeping the order in which its keys were first set
RECURSIVE GroupByFrame(_, _)
GroupByFrame(items, groups) ==
    IF items = <<>> THEN groups
    ELSE IF \E g \in 1..Len(groups) : groups[g].frame_path = Head(items).frame_path
    THEN GroupByFrame(Tail(items),
             [g \in 1..Len(groups) |->
                 IF groups[g].frame_path = Head(items).frame_path
                 THEN [groups[g] EXCEPT !.objects = Append(@, Head(items))]
                 ELSE groups[g]])
    ELSE GroupByFrame(Tail(items),
             Append(groups, [frame_path |-> Head(items).frame_path,
                             objects |-> <<Head(items)>>]))

\* lines 373-382
ScanGroup ==
    /\ scan_pc = "group"
    /\ scan_groups' = GroupByFrame(scan_items, <<>>)
    /\ scan_pc' = IF scan_items = <<>> THEN "done" ELSE "attach"
    /\ UNCHANGED <<scan_timestamps, scan_items, scan_transcript, scan_voice, scan_results>>
    /\ UNCHANGED notScan

\* lines 386-390: the group's objects get vc where they have no voice context
WithVoice(objs, vc) ==
    [j \in 1..Len(objs) |->
        IF vc # <<>> /\ objs[j].voice_context = <<>>
        THEN [objs[j] EXCEPT !.voice_context = vc]
        ELSE objs[j]]

\* lines 384-397: the FrameAnalysisResult of the i-th group (i counted from 1
\* here), with voice_contexts.get(i)
ScanFrameResult(i, group, vcs, timestamps) ==
    [frame_index |-> i,
     frame_path |-> group.frame_path,
     objects |-> WithVoice(group.objects, VoiceContextOf(vcs, i)),
     frame_timestamp |-> IF i <= Len(timestamps) THEN timestamps[i] ELSE 0,
     voice_context |-> VoiceContextOf(vcs, i)]

\* one iteration of the loop of lines 385-397
ScanAttach ==
    /\ scan_pc = "attach"
    /\ scan_results' = Append(scan_results,
          ScanFrameResult(Len(scan_results) + 1, scan_groups[Len(scan_results) + 1],
                          scan_voice, scan_timestamps))
    /\ scan_pc' = IF Len(scan_results) + 1 = Len(scan_groups) THEN "done" ELSE "attach"
    /\ UNCHANGED <<scan_timestamps, scan_items, scan_transcript, scan_voice, scan_groups>>
    /\ UNCHANGED notScan

ScanNext == ScanCorrelate \/ ScanGroup \/ ScanAttach

-----------------------------------------------------------------------------
(* Specifications                                                          *)

Init == PipeInit /\ DedupIdle /\ FuseIdle /\ FilterIdle /\ RoomIdle /\ AnalyzeIdle /\ RouterIdle /\ IouIdle /\ CorrIdle /\ ScanIdle
Spec == Init /\ [][Next]_vars

InitRouter == RouterInit /\ DedupIdle /\ FuseIdle /\ FilterIdle /\ RoomIdle /\ AnalyzeIdle /\ PipeIdle /\ IouIdle /\ CorrIdle /\ ScanIdle
SpecRouter == InitRouter /\ [][RouterNext]_vars

InitIou == IouInit /\ AnalyzeIdle /\ DedupIdle /\ FuseIdle /\ FilterIdle /\ RoomIdle /\ PipeIdle /\ RouterIdle /\ CorrIdle /\ ScanIdle
SpecIou == InitIou /\ [][IouNext]_vars

InitCorr == CorrInit /\ AnalyzeIdle /\ DedupIdle /\ FuseIdle /\ FilterIdle /\ RoomIdle /\ PipeIdle /\ RouterIdle /\ IouIdle /\ ScanIdle
SpecCorr == InitCorr /\ [][CorrNext]_vars

InitScan == ScanInit /\ AnalyzeIdle /\ DedupIdle /\ FuseIdle /\ FilterIdle /\ RoomIdle /\ PipeIdle /\ RouterIdle /\ IouIdle /\ CorrIdle
SpecScan == InitScan /\ [][ScanNext]_vars

InitAnalyze == AnalyzeInit /\ DedupIdle /\ FuseIdle /\ FilterIdle /\ RoomIdle /\ PipeIdle /\ RouterIdle /\ IouIdle /\ CorrIdle /\ ScanIdle
SpecAnalyze == InitAnalyze /\ [][AnalyzeNext]_vars

InitDedup == DedupInit /\ FuseIdle /\ FilterIdle /\ RoomIdle /\ AnalyzeIdle /\ PipeIdle /\ RouterIdle /\ IouIdle /\ CorrIdle /\ ScanIdle
SpecDedup == InitDedup /\ [][DedupNext]_vars

InitFuse == FuseInit /\ DedupIdle /\ FilterIdle /\ RoomIdle /\ AnalyzeIdle /\ PipeIdle /\ RouterIdle /\ IouIdle /\ CorrIdle /\ ScanIdle
SpecFuse == InitFuse /\ [][FuseNext]_vars

InitFilter == FilterInit /\ DedupIdle /\ FuseIdle /\ RoomIdle /\ AnalyzeIdle /\ PipeIdle /\ RouterIdle /\ IouIdle /\ CorrIdle /\ ScanIdle
SpecFilter == InitFilter /\ [][FilterNext]_vars

InitRoom == RoomInit /\ DedupIdle /\ FuseIdle /\ FilterIdle /\ AnalyzeIdle /\ PipeIdle /\ RouterIdle /\ IouIdle /\ CorrIdle /\ ScanIdle
SpecRoom == InitRoom /\ [][RoomNext]_vars

-----------------------------------------------------------------------------
\* C1: cross-frame deduplication is idempotent: the second run, on the first
\* run's output taken as one frame, returns exactly the first run's output.
C1_DedupIdempotent ==
    (dedup_run = 2 /\ dedup_pc = "done") => dedup_merged = dedup_first

-----------------------------------------------------------------------------
\* C4: the fuser returns at most |spatial| + |semantic| objects: exactly one
\* per spatial detection (carrying that detection's box, in order) plus one
\* per semantic object that no spatial detection consumed.
C4_FuserCount ==
    fuse_pc = "done" =>
        /\ Len(fuse_merged) <= Len(yolo_dets) + Len(qwen_objs)
        /\ Len(fuse_merged) =
               Len(yolo_dets) + Cardinality((1..Len(qwen_objs)) \ used_qwen)
        /\ \A k \in 1..Len(yolo_dets) : fuse_merged[k].bounding_box = yolo_dets[k].bbox

\* a finished fusion in which one semantic object was consumed and another
\* was appended on its own
C4_Witness ==
    /\ fuse_pc = "done"
    /\ used_qwen # {}
    /\ Len(fuse_merged) > Len(yolo_dets)
    /\ Len(fuse_merged) < Len(yolo_dets) + Len(qwen_objs)

\* C5: every object the fuser builds has confidence in [0,1] (0..100
\* hundredths): matched, unmatched and semantic-only objects alike, and the
\* DetectedObject confidence bound never rejects one.
C5_ConfidenceInRange ==
    /\ \A k \in 1..Len(fuse_merged) :
           0 <= fuse_merged[k].confidence /\ fuse_merged[k].confidence <= 100
    /\ fuse_err # "confidence"

\* a finished fusion holding a matched object with an averaged confidence, an
\* unmatched spatial object and a semantic-only object
C5_Witness ==
    /\ fuse_pc = "done"
    /\ \E k \in 1..Len(yolo_dets) :
           fuse_src[k] > 0 /\ fuse_merged[k].confidence # yolo_dets[k].confidence
    /\ \E k \in 1..Len(yolo_dets) :
           fuse_src[k] = 0 /\ fuse_merged[k].confidence = yolo_dets[k].confidence
    /\ \E k \in (Len(yolo_dets) + 1)..Len(fuse_merged) :
           fuse_merged[k].confidence = SemanticOnlyConfidence

\* C6: each semantic object is the source of at most one output object: it
\* is consumed by at most one spatial detection, and never both consumed and
\* appended as a semantic-only object.
C6_ConsumedAtMostOnce ==
    \A k1, k2 \in 1..Len(fuse_src) :
        (k1 # k2 /\ fuse_src[k1] # 0) => fuse_src[k1] # fuse_src[k2]

\* a finished fusion where a later spatial detection would have picked the
\* semantic object an earlier one had consumed
C6_Witness ==
    /\ fuse_pc = "done"
    /\ \E k1, k2 \in 1..Len(yolo_dets) :
           /\ k1 < k2
           /\ fuse_src[k1] > 0
           /\ BestMatch(yolo_dets[k2], qwen_objs, {}, 1, NoMatch).idx = fuse_src[k1]

-----------------------------------------------------------------------------
\* C7: every two accepted frames have perceptual-hash distance >= the
\* duplicate threshold (10), at every point of the filter's run and in its
\* result.
C7_AcceptedFarApart ==
    \A k1, k2 \in 1..Len(quality_frames) :
        k1 # k2 =>
            HashDistance(disk[quality_frames[k1][1]].phash,
                         disk[quality_frames[k2][1]].phash) >= DuplicateThreshold

\* a finished run that accepted at least two frames and rejected a sharp
\* frame that was near an accepted frame other than the last accepted one
C7_Witness ==
    /\ filter_pc = "done"
    /\ Len(quality_frames) >= 2
    /\ \E j \in 1..Len(frames) :
           /\ ~Unusable(disk[j])
           /\ \A k \in 1..Len(quality_frames) : quality_frames[k][1] # j
           /\ \E k \in 1..Len(quality_frames) :
                  /\ quality_frames[k][1] < j
                  /\ HashDistance(disk[j].phash, disk[quality_frames[k][1]].phash)
                         < DuplicateThreshold
                  /\ \E k2 \in (k + 1)..Len(quality_frames) : quality_frames[k2][1] < j

\* s is a subsequence of t: the entries of s are entries of t, in t's order
IsSubsequence(s, t) ==
    \E f \in [1..Len(s) -> 1..Len(t)] :
        /\ \A k \in 1..Len(s) : t[f[k]] = s[k]
        /\ \A k1, k2 \in 1..Len(s) : k1 < k2 => f[k1] < f[k2]

\* C8: the filter's output is no longer than its input and is a subsequence
\* of it: accepted <<path, timestamp>> pairs are input pairs, unchanged, in
\* the input's order.
C8_OutputSubsequence ==
    /\ Len(quality_frames) <= Len(frames)
    /\ IsSubsequence(quality_frames, frames)

\* a finished run whose output is sparse: a frame was dropped between two
\* accepted frames, and the later one has a timestamp that is not a whole
\* number of seconds
C8_Witness ==
    /\ filter_pc = "done"
    /\ \E k \in 1..(Len(quality_frames) - 1) :
           /\ quality_frames[k + 1][1] > quality_frames[k][1] + 1
           /\ quality_frames[k + 1][2] % 100 # 0

-----------------------------------------------------------------------------
\* C9: no two RoomMention entries of the list have the same (lowercased room
\* name, segment start rounded to one decimal).
C9_NoDuplicateMention ==
    \A k1, k2 \in 1..Len(mentions) :
        k1 # k2 =>
            ~ /\ LowerTokens(mentions[k1].room_name) = LowerTokens(mentions[k2].room_name)
              /\ Round1(mentions[k1].timestamp) = Round1(mentions[k2].timestamp)

\* a finished scan in which the same room followed a trigger phrase in two
\* places whose segment starts differ but round to the same tenth, and was
\* listed once
C9_Witness ==
    /\ room_pc = "done"
    /\ \E i, j \in 1..Len(segments) :
           /\ i # j
           /\ segments[i].start # segments[j].start
           /\ Round1(segments[i].start) = Round1(segments[j].start)
           /\ \E a \in 1..Len(TriggerMatches(segments[i].text, 1)) :
              \E b \in 1..Len(TriggerMatches(segments[j].text, 1)) :
                  /\ TriggerMatches(segments[i].text, 1)[a]
                        = TriggerMatches(segments[j].text, 1)[b]
                  /\ Cardinality({ k \in 1..Len(mentions) :
                                     mentions[k].room_name
                                        = TriggerMatches(segments[i].text, 1)[a] }) = 1

\* C2: every run of process_video that ends has returned, and the last
\* progress event it emitted has status "done"; no failure of a backend and
\* no malformed backend output ends the run before that event.
C2_EndsWithDone ==
    pv_pc \in {"returned", "raised"} =>
        /\ pv_pc = "returned"
        /\ events # <<>>
        /\ events[Len(events)].status = "done"

\* C3: when the spatial detector raises or the semantic describer fails
\* during the analysis of a frame, analyze_frame still returns for that frame
\* the fusion of an empty list for the failed stage with what the other stage
\* detected, and the run is not ended by it.
C3_FailureAbsorbed ==
    (last_call.frame > 0
       /\ (last_call.yolo.kind = "raise" \/ last_call.qwen.kind = "http_error")) =>
        /\ pv_pc # "raised"
        /\ Len(all_results) >= last_call.frame
        /\ all_results[last_call.frame].objects =
              MergeDetections(
                  IF last_call.yolo.kind = "raise" THEN <<>> ELSE last_call.yolo.dets,
                  IF last_call.qwen.kind = "http_error" THEN <<>>
                  ELSE RunQwen(last_call.qwen, ImgW, ImgH),
                  last_call.vc).objects

\* C10: whatever text the semantic backend responds with, a call of
\* analyze_frame whose spatial detector worked returns a list of objects and
\* raises nothing to its caller; when no object can be parsed out of the
\* text, the list holds the spatial detections only.
C10_AnyResponseYieldsList ==
    (an_pc # "called" /\ an_img.readable /\ an_yolo.kind = "ok"
       /\ an_outcome.kind = "ok") =>
        /\ an_pc = "returned"
        /\ ~an_result.raised
        /\ (RunQwen(an_outcome, ImgW, ImgH) = <<>> =>
               Len(an_result.objects) = Len(an_yolo.dets))

\* the frames analyzed so far got no voice context
NoFrameHasVoice ==
    /\ \A k \in 1..Len(all_results) : all_results[k].voice_context = <<>>
    /\ last_call.vc = <<>>

\* C11: when audio extraction or transcription raised, or the video has no
\* audio, the transcript is None and the run goes on without narration: no
\* frame gets a voice context, there is no room mention, the run is ended by
\* nothing but a frame analysis that raises, and a run that returns has
\* analyzed every quality frame and deduplicated the results.
C11_NoNarrationOnFailure ==
    (transcript_task = "done" /\ ~transcript.present) =>
        /\ transcript = NoTranscript
        /\ voice_contexts = <<>>
        /\ room_mentions = <<>>
        /\ NoFrameHasVoice
        /\ pv_pc = "raised" =>
              /\ last_call.frame = Len(all_results) + 1
              /\ AnalyzeFrame(frame_files[pv_quality[last_call.frame][1]],
                              last_call.yolo, last_call.qwen, last_call.vc).raised
        /\ pv_pc = "returned" =>
              /\ Len(all_results) = Len(pv_quality)
              /\ deduplicated =
                    DeduplicateObjects([k \in 1..Len(all_results) |-> all_results[k].objects])

\* a run whose transcription failed has returned after analyzing two frames
C11_Witness ==
    /\ transcript_task = "done"
    /\ ~transcript.present
    /\ pv_pc = "returned"
    /\ Len(pv_quality) = 2
    /\ Len(all_results) = 2
    /\ deduplicated # <<>>

\* another upload run for the same session id is still in progress
OtherRunActive(r) ==
    \E r2 \in DOMAIN uploads :
        r2 # r /\ uploads[r2].pc = "running" /\ uploads[r2].session_id = uploads[r].session_id

\* C12: once an upload run for a session id has ended, by returning or by
\* raising, and no other run for that id is in progress, _progress_queues
\* holds no queue for that session id.
C12_QueueRemovedAfterRun ==
    \A r \in DOMAIN uploads :
        (uploads[r].pc \in {"returned", "raised"} /\ ~OtherRunActive(r)) =>
            uploads[r].session_id \notin DOMAIN progress_queues

\* the events a consumer was sent, heartbeats left out
RECURSIVE Delivered(_)
Delivered(out) ==
    IF out = <<>> THEN <<>>
    ELSE IF Head(out) = Heartbeat THEN Delivered(Tail(out))
    ELSE <<Head(out)>> \o Delivered(Tail(out))

\* s holds entries of t in t's order (each entry of t is matched once)
RECURSIVE InOrder(_, _)
InOrder(s, t) ==
    IF s = <<>> THEN TRUE
    ELSE IF t = <<>> THEN FALSE
    ELSE IF Head(s) = Head(t) THEN InOrder(Tail(s), Tail(t))
    ELSE InOrder(s, Tail(t))

\* no other consumer reads the queue of consumer c
OnlyReader(c) ==
    \A c2 \in DOMAIN consumers :
        c2 # c => consumers[c2].queue # consumers[c].queue

\* C13: a consumer attached to a registered queue gets the queue's events in
\* the order they were put (all of them, up to the ones still pending, when
\* it is the queue's only reader); a timeout gives it a heartbeat and leaves
\* it waiting on the same queue; it stops only after an event with status
\* "done".
C13_HeartbeatAndOrder ==
    \A c \in DOMAIN consumers :
        consumers[c].queue > 0 =>
            /\ InOrder(Delivered(consumers[c].out), pushed[consumers[c].queue])
            /\ OnlyReader(c) =>
                  Delivered(consumers[c].out) \o queues[consumers[c].queue]
                      = pushed[consumers[c].queue]
            /\ Len(consumers[c].out) = Len(Delivered(consumers[c].out)) + consumers[c].beats
            /\ consumers[c].pc \in {"waiting", "closed"}
            /\ consumers[c].pc = "closed" <=>
                  (consumers[c].out # <<>>
                     /\ consumers[c].out[Len(consumers[c].out)].status = "done")

\* a consumer got a heartbeat, then went on to get events up to "done"
C13_Witness ==
    \E c \in DOMAIN consumers :
        /\ consumers[c].pc = "closed"
        /\ consumers[c].queue > 0
        /\ \E k \in 1..Len(consumers[c].out) :
              /\ consumers[c].out[k] = Heartbeat
              /\ k < Len(consumers[c].out)
        /\ Len(Delivered(consumers[c].out)) >= 4
        /\ consumers[c].out[Len(consumers[c].out)].status = "done"

\* process_video is in or past its frame loop, or a frame has been analyzed
AnalysisStarted ==
    \/ pv_pc \in {"analyze", "dedup", "finish", "returned", "raised"}
    \/ last_call.frame > 0
    \/ all_results # <<>>

\* C14: once process_video has started, frame extraction and transcription
\* both exist as tasks, and in every interleaving of the two no frame is
\* analyzed before both tasks have finished.
C14_AnalysisAfterBothTasks ==
    /\ pv_pc # "start" => (frame_task # "none" /\ transcript_task # "none")
    /\ AnalysisStarted => (frame_task = "done" /\ transcript_task = "done")

\* a frame was analyzed in a run where the main path had already emitted
\* "filtering" when the transcription task finished with a transcript
C14_Witness ==
    /\ last_call.frame > 0
    /\ all_results # <<>>
    /\ frame_task = "done"
    /\ transcript_task = "done"
    /\ \E k1, k2 \in 1..Len(events) :
          /\ k1 < k2
          /\ events[k1].status = "filtering"
          /\ events[k2] = Event("transcribing", (12 * ProgressUnit) \div 100)

\* C15: every object the fuser has produced has a non-empty name, whatever
\* the spatial class names and the semantic objects are.
C15_NonEmptyName ==
    \A k \in 1..Len(fuse_merged) : fuse_merged[k].name # <<>>

\* the two boxes share no area
Disjoint(box_a, box_b) ==
    \/ box_a[3] <= box_b[1]
    \/ box_b[3] <= box_a[1]
    \/ box_a[4] <= box_b[2]
    \/ box_b[4] <= box_a[2]

\* C16: _compute_iou of a box with itself is 1.0, for any box, and
\* _compute_iou of two boxes that do not overlap is 0.0.
C16_IouSelfAndDisjoint ==
    iou_pc = "done" =>
        /\ iou_a = iou_b => iou_val.num = iou_val.den
        /\ (iou_a # iou_b /\ Disjoint(iou_a, iou_b)) => iou_val.num = 0

\* a / b rounded to the nearest integer
RoundDiv(a, b) == (2 * a + b) \div (2 * b)

\* the interval the extraction is specified with:
\* max(1, round(native_fps / target_fps))
RoundedInterval(fps) ==
    Max2(1, RoundDiv(EffectiveFps(fps) * ExtractRateDen, ExtractRateNum))

RoundedIndices(v) ==
    { idx \in 0..(Len(v.native) - 1) : idx % RoundedInterval(v.fps) = 0 }

\* C17: frame extraction keeps exactly the native frames whose index is a
\* multiple of max(1, round(native_fps / target_fps)), in order, each with
\* the timestamp index / native_fps.
C17_RoundedInterval ==
    frame_task = "done" =>
        /\ Len(frames_with_ts) = Cardinality(RoundedIndices(video))
        /\ \A k \in 1..Len(frames_with_ts) :
              /\ frame_files[frames_with_ts[k][1]]
                    = video.native[NthSmallest(RoundedIndices(video), k) + 1]
              /\ frames_with_ts[k][2]
                    = (NthSmallest(RoundedIndices(video), k) * 100) \div EffectiveFps(video.fps)

\* C18: whenever the outer loop closes a cluster, the one object it emits is
\* a member of the cluster with the maximum confidence among the members,
\* the earliest such member when several have that confidence.
C18_KeepsHighestConfidence ==
    [][(dedup_pc = "scan" /\ ~used[dedup_i]) =>
          LET members == { k \in 1..Len(all_objects) : used'[k] /\ ~used[k] }
          IN /\ Len(dedup_merged') = Len(dedup_merged) + 1
             /\ \E m \in members :
                   /\ dedup_merged'[Len(dedup_merged')] = all_objects[m]
                   /\ \A k \in members :
                         /\ all_objects[k].confidence <= all_objects[m].confidence
                         /\ all_objects[k].confidence = all_objects[m].confidence => m <= k
      ]_vars

\* a first pass over two objects with similar names ended with one entry,
\* the second object, whose confidence is the higher one
C18_Witness ==
    /\ dedup_run = 1
    /\ dedup_pc = "done"
    /\ Len(all_objects) = 2
    /\ Len(dedup_merged) = 1
    /\ dedup_merged[1] = all_objects[2]
    /\ all_objects[2].confidence > all_objects[1].confidence

\* C19: for a video that cannot be opened or holds no frame, _extract_frames
\* returns the empty sequence and raises nothing; process_video then analyzes
\* no frame, is never stuck and never raises, and returns an empty detection
\* list and no mode-switch suggestion after a last event "done".
C19_EmptyVideoCompletes ==
    video.native = <<>> =>
        /\ frame_task = "done" => frames_with_ts = <<>>
        /\ pv_quality = <<>>
        /\ last_call = NoCall
        /\ all_results = <<>>
        /\ pv_pc # "raised"
        /\ pv_pc # "returned" => ENABLED Next
        /\ pv_pc = "returned" =>
              /\ deduplicated = <<>>
              /\ mode_switch = NoModeSwitch
              /\ events[Len(events)] = Event("done", ProgressUnit)

\* the run over a video without frames has returned
C19_Witness ==
    /\ video.native = <<>>
    /\ frame_task = "done"
    /\ frames_with_ts = <<>>
    /\ pv_pc = "returned"
    /\ deduplicated = <<>>
    /\ events[Len(events)].status = "done"

\* ---------------------------------------------------------------------------
\* C20
\* ---------------------------------------------------------------------------

ScoreGreater(a, b) == a.num * b.den > b.num * a.den

\* the semantic objects not yet consumed that score above the threshold for
\* the spatial detection the fuser is at
Matching == { i \in 1..Len(qwen_objs) :
                /\ i \notin used_qwen
                /\ AboveMatchThreshold(Combined(yolo_dets[fuse_k], qwen_objs[i])) }

IsBestUnused(i) ==
    \A j \in 1..Len(qwen_objs) :
        j \notin used_qwen =>
            ~ScoreGreater(Combined(yolo_dets[fuse_k], qwen_objs[j]),
                          Combined(yolo_dets[fuse_k], qwen_objs[i]))

TakesSemanticFields(o, q) ==
    /\ q.name_kind = "str" => o.name = q.name
    /\ q.desc_kind = "str" => o.description = q.description
    /\ o.category = q.category
    /\ o.is_book = q.is_book

IsGeneric(o, det) ==
    /\ o.name = Title(Unscore(det.class_name))
    /\ o.description = DetectedPrefix \o det.class_name
    /\ o.confidence = det.confidence

\* confidence (hundredths) is exactly (spatial confidence + score) / 2
ExactMean(c, confidence, score) ==
    c * 2 * score.den = confidence * score.den + 100 * score.num

\* confidence (a whole number of hundredths) is (spatial confidence + score) / 2
\* rounded to two decimal places: within half a hundredth of it
RoundedMean(c, confidence, score) ==
    /\ c * 2 * score.den - (confidence * score.den + 100 * score.num) <= score.den
    /\ (confidence * score.den + 100 * score.num) - c * 2 * score.den <= score.den

MatchedAtExample ==
    /\ fuse_pc = "done"
    /\ \E k \in 1..Len(yolo_dets) :
           /\ fuse_src[k] > 0
           /\ yolo_dets[k].confidence = 50
           /\ Combined(yolo_dets[k], qwen_objs[fuse_src[k]]) = [num |-> 18, den |-> 25]
           /\ fuse_merged[k].confidence = 61
           /\ fuse_merged[k].name = qwen_objs[fuse_src[k]].name

\* ... and a detection was left generic although a semantic object with a
\* positive score was still unconsumed
LeftGeneric ==
    /\ fuse_pc = "done"
    /\ \E k \in 1..Len(yolo_dets) :
           /\ fuse_src[k] = 0
           /\ IsGeneric(fuse_merged[k], yolo_dets[k])
           /\ \E i \in 1..Len(qwen_objs) :
                  /\ \A k2 \in 1..Len(yolo_dets) : fuse_src[k2] # i
                  /\ Combined(yolo_dets[k], qwen_objs[i]).num > 0

C21_ProgressNonDecreasing ==
    \A k \in 1..(Len(events) - 1) : events[k].progress <= events[k + 1].progress

\* the successful transcription reports 0.12 after the main path reported 0.15
C21_TranscribedAfterFiltering ==
    \E k \in 1..(Len(events) - 1) :
        /\ events[k].status = "filtering"
        /\ events[k + 1].status = "transcribing"
        /\ events[k + 1].progress < events[k].progress

\* ---------------------------------------------------------------------------
\* C22
\* ---------------------------------------------------------------------------

\* C22: in the pass of the outer loop seeded by the unclaimed object A, the
\* objects that become claimed are A and exactly the later unclaimed objects
\* that pass the merge test against A itself, whatever the representative
\* has been promoted to meanwhile.
C22_ComparedWithSeed ==
    [][(dedup_pc = "scan" /\ ~used[dedup_i]) =>
          \A j \in 1..Len(all_objects) :
              used'[j] <=> \/ used[j]
                           \/ j = dedup_i
                           \/ /\ j > dedup_i
                              /\ SameObject(all_objects[dedup_i], all_objects[j])]_vars

\* a finished run in which the first object A was joined by B of higher
\* confidence, and a later C that passes the merge test against B but not
\* against A came out as an object of its own
C22_Witness ==
    /\ dedup_pc = "done"
    /\ dedup_run = 1
    /\ \E j, k \in 2..Len(all_objects) :
           /\ j < k
           /\ SameObject(all_objects[1], all_objects[j])
           /\ all_objects[j].confidence > all_objects[1].confidence
           /\ SameObject(all_objects[j], all_objects[k])
           /\ ~SameObject(all_objects[1], all_objects[k])
           /\ dedup_merged[1] = all_objects[j]
           /\ Len(dedup_merged) >= 2
           /\ dedup_merged[2] = all_objects[k]

\* ---------------------------------------------------------------------------
\* C23
\* ---------------------------------------------------------------------------

\* index of the first occurrence of obj in the flattened input
FirstOccurrence(obj) ==
    CHOOSE k \in 1..Len(all_objects) :
        /\ all_objects[k] = obj
        /\ \A m \in 1..(k - 1) : all_objects[m] # obj

\* C23: the returned objects are objects of the input, no more of them than
\* the input has, and they come in the order in which the clusters'
\* representatives (the objects returned) first occur in the flattened input.
C23_OrderedByRepresentative ==
    (dedup_pc = "done" /\ dedup_run = 1) =>
        /\ Len(dedup_merged) <= Len(all_objects)
        /\ \A a \in 1..Len(dedup_merged) :
               \E k \in 1..Len(all_objects) : all_objects[k] = dedup_merged[a]
        /\ \A a, b \in 1..Len(dedup_merged) :
               a < b => FirstOccurrence(dedup_merged[a]) < FirstOccurrence(dedup_merged[b])

\* a cluster whose representative was promoted to a member that comes after
\* the seed of the next cluster
C23_PromotedPastNextSeed ==
    /\ dedup_pc = "done"
    /\ dedup_run = 1
    /\ Len(dedup_merged) >= 2
    /\ dedup_merged[1] # all_objects[1]
    /\ FirstOccurrence(dedup_merged[2]) < FirstOccurrence(dedup_merged[1])

\* ---------------------------------------------------------------------------
\* C24
\* ---------------------------------------------------------------------------

\* the semantic objects consumed by the spatial detections before the k-th
ConsumedBefore(k) == { fuse_src[k1] : k1 \in 1..(k - 1) } \ {0}

ScoreOf(k, i) == Combined(yolo_dets[k], qwen_objs[i])

\* C24: matching is greedy in the order of the spatial detections: the k-th
\* detection takes a best-scoring semantic object among those no earlier
\* detection consumed (so a contested semantic object goes to the earlier
\* detection), and is left spatial-only when none of those scores above the
\* threshold.
C24_GreedyInSpatialOrder ==
    \A k \in 1..Len(fuse_src) :
        k <= Len(yolo_dets) =>
            IF \E i \in 1..Len(qwen_objs) :
                   i \notin ConsumedBefore(k) /\ AboveMatchThreshold(ScoreOf(k, i))
            THEN /\ fuse_src[k] \in (1..Len(qwen_objs)) \ ConsumedBefore(k)
                 /\ \A j \in (1..Len(qwen_objs)) \ ConsumedBefore(k) :
                        ~ScoreGreater(ScoreOf(k, j), ScoreOf(k, fuse_src[k]))
            ELSE fuse_src[k] = 0

\* a finished fusion where one semantic object is the best candidate of two
\* detections, scores higher with the later one, and went to the earlier one
C24_Witness ==
    /\ fuse_pc = "done"
    /\ \E k1, k2 \in 1..Len(yolo_dets) :
           /\ k1 < k2
           /\ fuse_src[k1] > 0
           /\ BestMatch(yolo_dets[k2], qwen_objs, {}, 1, NoMatch).idx = fuse_src[k1]
           /\ ScoreGreater(ScoreOf(k2, fuse_src[k1]), ScoreOf(k1, fuse_src[k1]))
           /\ fuse_src[k2] # fuse_src[k1]

\* ---------------------------------------------------------------------------
\* C25
\* ---------------------------------------------------------------------------

\* input frame j (path j) is in the output built so far
Accepted(j) == \E k \in 1..Len(quality_frames) : quality_frames[k][1] = j

\* C25: of the frames looked at so far, a readable one is accepted exactly
\* when its focus measure is not below the blur threshold and its hash is at
\* distance >= 10 from the hash of every frame accepted before it; the
\* comparison set holds the hashes of the accepted frames and nothing else.
C25_AcceptedExactlyWhen ==
    /\ \A j \in 1..Len(frames) :
           (j < filter_i /\ disk[j].readable) =>
               (Accepted(j) <=>
                    /\ disk[j].laplacian_var >= BlurThreshold
                    /\ \A m \in 1..(j - 1) :
                           Accepted(m) =>
                               HashDistance(disk[j].phash, disk[m].phash)
                                   >= DuplicateThreshold)
    /\ seen_hashes = [k \in 1..Len(quality_frames) |-> disk[quality_frames[k][1]].phash]

\* three frames: frame 2 at distance 2 from frame 1 and rejected, frame 3 far
\* from frame 1 but near the rejected frame 2; frames 1 and 3 are returned
C25_Witness ==
    /\ filter_pc = "done"
    /\ Len(frames) = 3
    /\ HashDistance(disk[2].phash, disk[1].phash) = 2
    /\ HashDistance(disk[3].phash, disk[2].phash) < DuplicateThreshold
    /\ [k \in 1..Len(quality_frames) |-> quality_frames[k][1]] = <<1, 3>>

\* ---------------------------------------------------------------------------
\* C26
\* ---------------------------------------------------------------------------

\* the semantic objects no spatial detection consumed
Unconsumed == (1..Len(qwen_objs)) \ used_qwen

\* the positions of the output after the objects derived from spatial detections
RestPositions == (Len(yolo_dets) + 1)..Len(fuse_merged)

\* C26: in the output of a finished fusion, the entries after the
\* Len(yolo_dets) spatial ones are the unconsumed semantic objects, each
\* exactly once and in their original order, each with confidence 0.6 and
\* with its own bounding box (none when it has none).
C26_UnconsumedAppended ==
    fuse_pc = "done" =>
        /\ Len(fuse_merged) = Len(yolo_dets) + Cardinality(Unconsumed)
        /\ \A i \in Unconsumed :
               Cardinality({ k \in RestPositions : fuse_src[k] = i }) = 1
        /\ \A k \in RestPositions :
               /\ fuse_src[k] \in Unconsumed
               /\ fuse_merged[k].confidence = 60
               /\ fuse_merged[k].bounding_box = qwen_objs[fuse_src[k]].bbox
               /\ qwen_objs[fuse_src[k]].name_kind = "str" =>
                      fuse_merged[k].name = qwen_objs[fuse_src[k]].name
        /\ \A k1, k2 \in RestPositions : k1 < k2 => fuse_src[k1] < fuse_src[k2]

\* a finished fusion with a spatial detection and two unconsumed semantic
\* objects, the first without a bounding box and the second with one
C26_Witness ==
    /\ fuse_pc = "done"
    /\ Len(yolo_dets) >= 1
    /\ Unconsumed = {1, 2}
    /\ qwen_objs[1].bbox = <<>>
    /\ qwen_objs[2].bbox # <<>>
    /\ fuse_merged[Len(yolo_dets) + 1].bounding_box = <<>>
    /\ fuse_merged[Len(yolo_dets) + 2].bounding_box = qwen_objs[2].bbox

\* ---------------------------------------------------------------------------
\* C27
\* ---------------------------------------------------------------------------

\* run r ends in this step
Ends(r) == uploads[r].pc = "running" /\ uploads'[r].pc \in {"returned", "raised"}

\* C27: when a run ends while another run for the same session id is still
\* in progress, the queue of that other run, if it is the one registered for
\* the session id, stays registered.
C27_OtherQueueStaysRegistered ==
    [][\A r, r2 \in DOMAIN uploads :
           (/\ r # r2
            /\ Ends(r)
            /\ uploads[r2].pc = "running"
            /\ uploads[r2].session_id = uploads[r].session_id
            /\ uploads[r].session_id \in DOMAIN progress_queues
            /\ progress_queues[uploads[r].session_id] = uploads[r2].queue)
           => /\ uploads[r].session_id \in DOMAIN progress_queues'
              /\ progress_queues'[uploads[r].session_id] = uploads[r2].queue]_vars

\* a run still in progress, started while an earlier run for the same session
\* id was going on, whose session id has no queue registered any more
C27_RunningButUnregistered ==
    \E r, r2 \in DOMAIN uploads :
        /\ uploads[r].pc = "returned"
        /\ uploads[r2].pc = "running"
        /\ uploads[r2].session_id = uploads[r].session_id
        /\ uploads[r2].queue > uploads[r].queue
        /\ uploads[r].session_id \notin DOMAIN progress_queues

\* ---------------------------------------------------------------------------
\* C28
\* ---------------------------------------------------------------------------

\* in text, the token at b is a known room name that immediately follows a
\* trigger phrase (with or without "the")
RoomAfterTrigger(text, b) ==
    /\ b \in 2..Len(text)
    /\ IsKnownRoom(text[b])
    /\ \/ IsTrigger(text[b - 1])
       \/ b >= 3 /\ IsThe(text[b - 1]) /\ IsTrigger(text[b - 2])

\* the mentions of the room named by token tok with the segment start of seg
MentionsOf(tok, seg) ==
    { k \in 1..Len(mentions) :
          /\ mentions[k].room_name = <<TokLower(tok)>>
          /\ Round1(mentions[k].timestamp) = Round1(seg.start) }

\* C28: after the scan, for every segment in which a trigger phrase is
\* immediately followed by a known room name there is exactly one mention of
\* that room for that segment start, and its confidence is 0.9.
C28_TriggeredRoomOnceAtHigh ==
    room_pc = "done" =>
        \A i \in 1..Len(segments) :
            \A b \in 1..Len(segments[i].text) :
                RoomAfterTrigger(segments[i].text, b) =>
                    /\ Cardinality(MentionsOf(segments[i].text[b], segments[i])) = 1
                    /\ \A k \in MentionsOf(segments[i].text[b], segments[i]) :
                           mentions[k].confidence = HighConfidence

\* the one segment "this is the kitchen and small": the words after the room
\* name became part of the 0.9 mention, and "kitchen" was listed at 0.7
C28_TrailingWordsTaken ==
    /\ room_pc = "done"
    /\ Len(segments) = 1
    /\ RoomAfterTrigger(segments[1].text, 3)
    /\ Len(mentions) = 2
    /\ mentions[1].room_name = <<"kitchen", "and", "small">>
    /\ mentions[1].confidence = HighConfidence
    /\ mentions[2].room_name = <<"kitchen">>
    /\ mentions[2].confidence = LowConfidence

\* the scenario itself: "this is the kitchen, pretty small" gives one mention,
\* kitchen at 0.9
C28_ScenarioHolds ==
    /\ room_pc = "done"
    /\ Len(segments) = 1
    /\ segments[1].text = <<"this is", "the", "kitchen", ",", "pretty small">>
    /\ Len(mentions) = 1
    /\ mentions[1].room_name = <<"kitchen">>
    /\ mentions[1].confidence = HighConfidence

\* ---------------------------------------------------------------------------
\* C29
\* ---------------------------------------------------------------------------

\* the instants (hundredths of a second) the timings and window bounds lie in
Instants == (0 - 200)..600

\* the closed intervals [a1, a2] and [b1, b2] share an instant
Intersects(a1, a2, b1, b2) ==
    \E x \in Instants : a1 <= x /\ x <= a2 /\ b1 <= x /\ x <= b2

\* the transcript words whose interval meets the window around t, in
\* transcript order
WordsInWindow(t) ==
    SelectSeq(AllWords(corr_segments),
              LAMBDA w : Intersects(w.start, w.end,
                                    t - corr_window \div 2, t + corr_window \div 2))

\* C29: every context built so far carries the index and timestamp of the
\* frame at its position, matches exactly the words whose [start, end]
\* meets [t - w/2, t + w/2] (bounds included), and its snippet is those
\* words in transcript order; the finished list has one context per frame.
C29_WordsInWindowPerFrame ==
    /\ Len(corr_out) <= Len(corr_frames)
    /\ corr_pc = "done" => Len(corr_out) = Len(corr_frames)
    /\ \A k \in 1..Len(corr_out) :
           /\ corr_out[k].frame_index = corr_frames[k][1]
           /\ corr_out[k].frame_timestamp = corr_frames[k][2]
           /\ corr_out[k].words = WordsInWindow(corr_frames[k][2])
           /\ corr_out[k].transcript_snippet =
                  [j \in 1..Len(WordsInWindow(corr_frames[k][2])) |->
                       WordsInWindow(corr_frames[k][2])[j].word]

\* two frames at 2.00 s and 0.00 s, given with indices 7 and 0, against a
\* transcript with a word ending on the lower bound of the first window and a
\* word starting on its upper bound
C29_Witness ==
    /\ corr_pc = "done"
    /\ corr_window = 300
    /\ corr_frames = << <<7, 200>>, <<0, 0>> >>
    /\ Len(corr_segments) = 2
    /\ corr_out[1].frame_index = 7
    /\ corr_out[1].transcript_snippet = <<"hello", "this", "kitchen">>
    /\ corr_out[2].transcript_snippet = <<"hello">>

\* ---------------------------------------------------------------------------
\* C30
\* ---------------------------------------------------------------------------

\* the narration correlated with the capture time of the scanned frame
\* stored at frame_path (<<>>: none)
NarrationAt(frame_path) ==
    IF scan_transcript.present
    THEN CorrelateToFrame(scan_transcript.segments, scan_timestamps[frame_path],
                          CorrelateWindow)
    ELSE <<>>

\* C30: every object of every frame result built so far has as its voice
\* context the narration correlated with the capture timestamp of the
\* scanned frame it came from.
C30_VoiceOfOwnFrame ==
    \A r \in 1..Len(scan_results) :
        \A j \in 1..Len(scan_results[r].objects) :
            scan_results[r].objects[j].voice_context
                = NarrationAt(scan_results[r].frame_path)

\* a finished scan whose first frame contributed no item: the objects of the
\* second frame carry what was said while the first frame was captured
C30_ShiftedNarration ==
    /\ scan_pc = "done"
    /\ Len(scan_results) >= 1
    /\ scan_results[1].frame_path = 2
    /\ NarrationAt(1) # <<>>
    /\ NarrationAt(2) # NarrationAt(1)
    /\ scan_results[1].objects[1].voice_context = NarrationAt(1)

====
